---- MODULE Spec2Model ----
(***************************************************************************)
(* A model of geedownloader/services.py (class GEEService): the export     *)
(* orchestration, asset probing, date-range validation and job-status      *)
(* normalisation over the remote Earth Engine client library `ee`.         *)
(*                                                                         *)
(* The remote engine is the environment.  Every remote call of a handler   *)
(* either raises or answers truthfully about the asset the engine holds    *)
(* for the request (`env`); which of the two happens is chosen with \E at  *)
(* the place of the call, and only when the code reaches that call.        *)
(*                                                                         *)
(* One request is handled at a time: a handler runs from the idle state    *)
(* and leaves its record in `last`; Return hands the record to the caller. *)
(* The specification SpecThreads serves requests on two worker threads     *)
(* instead, one remote call at a time (`inflight`).                        *)
(***************************************************************************)
EXTENDS Integers, Sequences, FiniteSets, TLC

VARIABLES
    session,    \* project the process-wide ee session is bound to
    tasks,      \* the engine's job list, as ee.data.getTaskList() returns it
    handles,    \* the job ids the callers hold: every task_id a submission returned
    last,       \* the handler that ran last: its arguments, remote calls, result
    inflight    \* per worker thread, the request it is serving and the remote
                \* calls it has made so far

vars == <<session, tasks, handles, last, inflight>>

----------------------------------------------------------------------------
(* Bounds of the model *)

\* calendar days 0 .. MaxDay of the modelled period
MaxDay == 2
\* most items (timestamps) a collection holds
MaxItems == 2
\* most entries of other clients ahead of a job in the engine's job list
MaxForeign == 1
\* most export jobs submitted in a run
MaxJobs == 1
\* most remote calls of one export request that the engine fails
MaxFaults == 1

----------------------------------------------------------------------------
(* Python values *)

None == [kind |-> "none"]
\* a key that a dict does not hold
Absent == [kind |-> "absent"]
PyInt(n) == [kind |-> "int", val |-> n]
PyStr(s) == [kind |-> "str", val |-> s]
\* a float, as a number of FracDen-ths: a power of two, so that the floating
\* point product with 100 is exact
FracDen == 8
PyFloat(n) == [kind |-> "float", val |-> n]

\* int(x) of the quotient a / b: truncation towards zero
TruncDiv(a, b) == IF a >= 0 THEN a \div b ELSE -((-a) \div b)

\* str(n) of a small integer
Digits == <<"0", "1", "2", "3", "4", "5", "6", "7", "8", "9">>
\* str(v)
ToStr(v) ==
    CASE v.kind = "str" -> v.val
      [] v.kind = "int" -> Digits[v.val + 1]
      [] v.kind = "none" -> "None"

\* outcome of a call: a value, or an exception of a type with a message
Ok(v) == [raised |-> FALSE, val |-> v]
Raise(type, msg) == [raised |-> TRUE, type |-> type, msg |-> msg]
\* place holder for a call the code did not reach
NotCalled == [raised |-> FALSE, val |-> [kind |-> "notcalled"]]

Call(name, outcome) == [call |-> name, ret |-> outcome]
Called(calls, name) == \E i \in 1..Len(calls) : calls[i].call = name

Min(S) == CHOOSE x \in S : \A y \in S : x <= y
Max(S) == CHOOSE x \in S : \A y \in S : y <= x

----------------------------------------------------------------------------
(* Exception messages.  A message is a sequence of words; str(e) joins the *)
(* words, `needle in msg` looks for the needle's words in a row.           *)

RECURSIVE JoinWords(_)
JoinWords(ws) ==
    IF ws = <<>> THEN ""
    ELSE IF Len(ws) = 1 THEN ws[1]
    ELSE ws[1] \o " " \o JoinWords(Tail(ws))

Contains(ws, needle) ==
    \E i \in 1..(Len(ws) - Len(needle) + 1) :
        SubSeq(ws, i, i + Len(needle) - 1) = needle

\* str.lower() of a word
LowerWord(w) ==
    CASE w = "Permission" -> "permission"
      [] w = "Caller" -> "caller"
      [] w = "Project" -> "project"
      [] w = "Asset" -> "asset"
      [] w = "Connection" -> "connection"
      [] w = "Image" -> "image"
      [] w = "ImageCollection" -> "imagecollection"
      [] w = "GeoTIFF" -> "geotiff"
      [] w = "TFRecord" -> "tfrecord"
      [] w = "Not" -> "not"
      [] w = "Client" -> "client"
      [] w = "Earth" -> "earth"
      [] w = "Engine" -> "engine"
      [] OTHER -> w
Lower(ws) == [i \in 1..Len(ws) |-> LowerWord(ws[i])]

\* messages of the engine's errors
ConnectionReset == <<"Connection", "reset", "by", "peer">>
CallerLacksPermission ==
    <<"Caller", "does", "not", "have", "required", "permission", "to", "use", "project">>
ProjectNotFound == <<"Project", "not", "found", "or", "deleted">>
NotAnImage == <<"Asset", "is", "not", "an", "Image">>
NotACollection == <<"Asset", "is", "not", "an", "ImageCollection">>

TransientError == Raise("EEException", ConnectionReset)

----------------------------------------------------------------------------
(* Time: item timestamps are milliseconds since the epoch of the modelled  *)
(* period, datetimes are seconds since that epoch (local zone = UTC).      *)

MsPerSecond == 1000
SecondsPerDay == 86400

Days == 0..MaxDay
\* the 'YYYY-MM-DD' string of a modelled day, day 0 first
DateStr(d) ==
    << "2020-01-01", "2020-01-02", "2020-01-03", "2020-01-04", "2020-01-05",
       "2020-01-06", "2020-01-07", "2020-01-08", "2020-01-09", "2020-01-10" >>[d + 1]
\* a date string without zero padding, which %m accepts too (day 1)
UnpaddedDay1 == "2020-1-02"
\* the date strings of the model: the last one is in no format strptime reads
DateStrings == {DateStr(d) : d \in Days} \cup {UnpaddedDay1, "01/02/2020"}

\* datetime.strptime(s, '%Y-%m-%d'): midnight of the named day, or ValueError
Strptime(s) ==
    IF \E d \in Days : DateStr(d) = s
    THEN Ok((CHOOSE d \in Days : DateStr(d) = s) * SecondsPerDay)
    ELSE IF s = UnpaddedDay1
    THEN Ok(1 * SecondsPerDay)
    ELSE Raise("ValueError", <<"time", "data", "does", "not", "match", "format">>)

\* datetime.fromtimestamp(ms / 1000): the instant, time of day kept
FromTimestamp(ms) == ms \div MsPerSecond

\* the instants an item of the modelled period can carry: midnight and noon
Instants ==
    { d * (SecondsPerDay * MsPerSecond) + h * ((SecondsPerDay * MsPerSecond) \div 2)
      : d \in Days, h \in 0..1 }
TimestampSets == {T \in SUBSET Instants : Cardinality(T) <= MaxItems}

----------------------------------------------------------------------------
(* The asset the engine holds for the requested id *)

\* a band as the engine describes it
Band(id) == [id |-> id]
\* band lists an asset can carry: the bands of an image, or of the first
\* member of a collection
BandLists == { <<>>, <<Band("temp")>>, <<Band("temp"), Band("precip")>> }

Assets ==
    [kind : {"IMAGE"}, times : {T \in TimestampSets : Cardinality(T) <= 1}, bands : BandLists]
    \cup [kind : {"IMAGE_COLLECTION"}, times : TimestampSets, bands : BandLists]
    \cup [kind : {"TABLE", "MISSING"}, times : {{}}, bands : {<<>>}]

PyList(items) == [kind |-> "list", items |-> items]
\* the 'properties' sub-record of a metadata record
Properties(title, description) ==
    [kind |-> "dict", title |-> title, description |-> description]

\* a metadata record (a dict): a key it does not hold is Absent
Info(type, bands, title, description, properties) ==
    [kind |-> "dict", type |-> type, bands |-> bands, title |-> title,
     description |-> description, properties |-> properties]

\* the metadata records ee.data.getInfo can give for the asset
InfoRecords(asset) ==
    CASE asset.kind = "IMAGE" ->
            { Info("IMAGE", PyList(asset.bands), Absent, Absent,
                   Properties(PyStr("An image"), Absent)) }
      [] asset.kind = "IMAGE_COLLECTION" ->
            { Info("IMAGE_COLLECTION", b, PyStr("A collection"), PyStr("Daily data"), Absent)
              : b \in {Absent, PyList(asset.bands)} }
      [] asset.kind = "TABLE" ->
            { Info("TABLE", b, Absent, Absent, pr)
              : b \in {Absent, [kind |-> "dict"]},
                pr \in {Absent, None, Properties(Absent, PyStr("A table"))} }
      [] OTHER -> {}

\* ee.data.getInfo(dataset_id): the asset's metadata record, None for an id
\* that names nothing, or an engine error
GetInfoOutcomes(asset) ==
    {TransientError}
    \cup (IF asset.kind = "MISSING"
          THEN {Ok(None), Raise("EEException", <<"Asset", "not", "found">>)}
          ELSE {Ok(info) : info \in InfoRecords(asset)})

\* ee.ImageCollection(id).aggregate_array('system:time_start').getInfo()
AggregateOutcomes(asset) ==
    {TransientError}
    \cup (IF asset.kind = "IMAGE_COLLECTION"
          THEN {Ok(PyList(asset.times)), Ok(None)}
          ELSE {Raise("EEException", NotACollection)})

\* ee.Image(id).bandNames().getInfo()
ImageProbeOutcomes(asset) ==
    {TransientError}
    \cup (IF asset.kind = "IMAGE"
          THEN {Ok(PyList(asset.bands))}
          ELSE {Raise("EEException", NotAnImage)})

\* ee.ImageCollection(id).size().getInfo()
CollectionProbeOutcomes(asset) ==
    {TransientError}
    \cup (IF asset.kind = "IMAGE_COLLECTION"
          THEN {Ok(PyInt(Cardinality(asset.times)))}
          ELSE {Raise("EEException", NotACollection)})

\* ee.ImageCollection(id).first().getInfo(): the first member's record, None
\* for a collection without members
FirstImageOutcomes(asset) ==
    {TransientError}
    \cup (IF asset.kind # "IMAGE_COLLECTION" THEN {Raise("EEException", NotACollection)}
          ELSE IF asset.times = {} THEN {Ok(None)}
          ELSE {Ok(Info("IMAGE", PyList(asset.bands), Absent, Absent, Absent))})

----------------------------------------------------------------------------
(* The process-wide session *)

Projects == {"proj-a", "proj-b"}
\* project_name=None (or empty): falsy
NoProject == ""

\* ee.Initialize(project=p)
InitializeOutcomes(p) ==
    { Ok(None), TransientError,
      Raise("EEException", CallerLacksPermission),
      Raise("EEException", ProjectNotFound) }

\* the project the session is bound to after ee.Initialize(project=p)
SessionAfter(sess, p, init) == IF init.raised THEN sess ELSE p

\* "Permission denied" in msg or "not found" in msg or
\* "does not have required permission" in msg
IsProjectPermissionErrorMut(msg) ==
    Contains(msg, <<"Permission", "denied">>)
IsProjectPermissionError(msg) ==
    \/ Contains(msg, <<"Permission", "denied">>)
    \/ Contains(msg, <<"not", "found">>)
    \/ Contains(msg, <<"does", "not", "have", "required", "permission">>)

----------------------------------------------------------------------------
(* GEEService.check_dataset_access *)

AccessOk(info) ==
    [success |-> TRUE, info |-> info, error |-> Absent,
     error_type |-> Absent, message |-> Absent]
AccessFailed(error, error_type, message) ==
    [success |-> FALSE, info |-> Absent, error |-> PyStr(error),
     error_type |-> error_type, message |-> message]

\* the record a successful probe returns: the kind and nothing else
ProbedInfoMut(type) == Info("IMAGE", Absent, Absent, Absent, Absent)
ProbedInfo(type) == Info(type, Absent, Absent, Absent, Absent)

\* the result of the last resort, ee.data.getInfo, and of the two handlers
GenericLookupResult(gen) ==
    IF ~gen.raised
    THEN IF gen.val.kind = "none"
         THEN AccessFailed("Dataset not found or not accessible", Absent, Absent)
         ELSE AccessOk(gen.val)
    ELSE IF gen.type = "EEException"
    THEN IF \/ Contains(gen.msg, <<"does", "not", "have", "required", "permission">>)
            \/ Contains(gen.msg, <<"permission", "denied">>)
         THEN AccessFailed("Permission denied", PyStr("permission"),
                  PyStr("Permission error: Caller does not have required permission to use this dataset. Error: "
                        \o JoinWords(gen.msg)))
         ELSE AccessFailed("Unknown error", PyStr("unknown"),
                  PyStr("Error accessing dataset: " \o JoinWords(gen.msg)))
    ELSE AccessFailed("Error checking dataset access", Absent, PyStr(JoinWords(gen.msg)))

ProjectIdError(project_name) ==
    AccessFailed("Project ID error", PyStr("permission"),
        PyStr("Permission error: Caller does not have required permission to use project "
              \o project_name \o ". Please check that you are using the correct project ID."))

\* a run: the remote calls made, the value returned, the session left behind
Run(calls, result, sess) == [calls |-> calls, result |-> result, session |-> sess]

\* the probes, in the order of the code: image, collection, generic lookup
ProbeRuns(asset, calls, sess) ==
    UNION {
        IF ~img.raised
        THEN { Run(calls \o <<Call("Image.bandNames", img)>>,
                   AccessOk(ProbedInfo("IMAGE")), sess) }
        ELSE UNION {
            IF ~col.raised
            THEN { Run(calls \o <<Call("Image.bandNames", img),
                                  Call("ImageCollection.size", col)>>,
                       AccessOk(ProbedInfo("IMAGE_COLLECTION")), sess) }
            ELSE { Run(calls \o <<Call("Image.bandNames", img),
                                  Call("ImageCollection.size", col),
                                  Call("getInfo", gen)>>,
                       GenericLookupResult(gen), sess)
                   : gen \in GetInfoOutcomes(asset) }
            : col \in CollectionProbeOutcomes(asset) }
        : img \in ImageProbeOutcomes(asset) }

\* every run of check_dataset_access(dataset_id, project_name)
CheckAccessRuns(asset, project_name, sess) ==
    IF project_name = NoProject THEN ProbeRuns(asset, <<>>, sess)
    ELSE UNION {
        IF init.raised /\ IsProjectPermissionError(init.msg)
        THEN { Run(<<Call("Initialize", init)>>, ProjectIdError(project_name), sess) }
        ELSE ProbeRuns(asset, <<Call("Initialize", init)>>,
                       SessionAfter(sess, project_name, init))
        : init \in InitializeOutcomes(project_name) }

----------------------------------------------------------------------------
(* Dataset ids: Python strings, as sequences of characters *)

DatasetIds == { <<"A", "/", "B", "/", "C">>, <<"C">>, <<"A", "/">> }

RECURSIVE JoinChars(_)
JoinChars(cs) == IF cs = <<>> THEN "" ELSE cs[1] \o JoinChars(Tail(cs))

----------------------------------------------------------------------------
(* GEEService.get_available_variables *)

DefaultBand(description) ==
    [id |-> "default", name |-> "Default Band", description |-> description]

\* bool(v) of a value found under a key
Truthy(v) ==
    CASE v.kind = "list" -> v.items # <<>>
      [] v.kind = "str" -> v.val # ""
      [] v.kind = "dict" -> TRUE
      [] OTHER -> FALSE

\* basic_info.get(key, ''), and basic_info['properties'].get(key, '') when that
\* is empty and the record holds 'properties': a string, or AttributeError
\* when 'properties' is no dict
MetaText(basic_info, key) ==
    LET top == basic_info[key]
        props == basic_info.properties
    IN  IF top # Absent /\ Truthy(top) THEN Ok(top.val)
        ELSE IF props = Absent THEN Ok("")
        ELSE IF props.kind # "dict"
        THEN Raise("AttributeError", <<"object", "has", "no", "attribute", "get">>)
        ELSE IF props[key] = Absent THEN Ok("") ELSE Ok(props[key].val)

\* basic_info.get('bands', [])
BandsOf(basic_info) ==
    IF basic_info.bands = Absent THEN PyList(<<>>) ELSE basic_info.bands

\* bands_info after the first-member lookup: first_image_info.get('bands', []),
\* the old value when the lookup raises or gives None
BandsAfterFirstImage(bands_info, first) ==
    IF first.raised \/ first.val.kind = "none" THEN bands_info
    ELSE BandsOf(first.val)

\* the last two steps: a value that is no list counts as no bands, and no
\* bands become the one placeholder band
BandsOrDefaultMut(bands_info) ==
    IF bands_info.kind # "list" THEN <<>> ELSE bands_info.items
BandsOrDefault(bands_info) ==
    LET listed == IF bands_info.kind # "list" THEN <<>> ELSE bands_info.items
    IN  IF listed = <<>>
        THEN << DefaultBand("Default band for this dataset") >>
        ELSE listed

VariablesResult(variables, description, title, error) ==
    [variables |-> variables, description |-> description, tags |-> <<>>,
     title |-> title, error |-> error]

\* access_check.get('message', access_check['error'])
AccessErrorMessage(access_check) ==
    IF access_check.message # Absent THEN access_check.message.val
    ELSE access_check.error.val

\* the result for a dataset that check_dataset_access does not resolve
VariablesAccessError(dataset_id, error_message) ==
    VariablesResult(<< DefaultBand("Error accessing dataset: " \o error_message) >>,
                    "Error: " \o error_message, JoinChars(dataset_id),
                    PyStr(error_message))

\* the result of the handler `except Exception`
VariablesFailure(exc) ==
    VariablesResult(
        << DefaultBand("Error occurred while fetching band information: "
                       \o JoinWords(exc.msg)) >>,
        "", "", Absent)

\* a run of get_available_variables; `access` is what check_dataset_access gave
VarRun(calls, access, result, sess) ==
    [calls |-> calls, access |-> access, result |-> result, session |-> sess]

\* the part after a successful access check
ResolvedRuns(asset, acc) ==
    LET basic_info == acc.result.info
        description == MetaText(basic_info, "description")
        title == MetaText(basic_info, "title")
    IN  IF description.raised
        THEN { VarRun(acc.calls, acc.result, VariablesFailure(description), acc.session) }
        ELSE IF title.raised
        THEN { VarRun(acc.calls, acc.result, VariablesFailure(title), acc.session) }
        ELSE IF ~Truthy(BandsOf(basic_info)) /\ basic_info.type = "IMAGE_COLLECTION"
        THEN { VarRun(acc.calls \o <<Call("first.getInfo", first)>>, acc.result,
                      VariablesResult(
                          BandsOrDefault(BandsAfterFirstImage(BandsOf(basic_info), first)),
                          description.val, title.val, Absent),
                      acc.session)
               : first \in FirstImageOutcomes(asset) }
        ELSE { VarRun(acc.calls, acc.result,
                      VariablesResult(BandsOrDefault(BandsOf(basic_info)),
                                      description.val, title.val, Absent),
                      acc.session) }

\* the part from the access check on, after the calls made so far
VariablesFromAccess(dataset_id, asset, project_name, calls, sess) ==
    UNION {
        LET acc == Run(calls \o a.calls, a.result, a.session)
        IN  IF ~acc.result.success
            THEN { VarRun(acc.calls, acc.result,
                          VariablesAccessError(dataset_id, AccessErrorMessage(acc.result)),
                          acc.session) }
            ELSE ResolvedRuns(asset, acc)
        : a \in CheckAccessRuns(asset, project_name, sess) }

\* every run of get_available_variables(dataset_id, project_name)
VariablesRuns(dataset_id, asset, project_name, sess) ==
    IF project_name = NoProject
    THEN VariablesFromAccess(dataset_id, asset, project_name, <<>>, sess)
    ELSE UNION {
        VariablesFromAccess(dataset_id, asset, project_name,
                            <<Call("Initialize", init)>>,
                            SessionAfter(sess, project_name, init))
        : init \in InitializeOutcomes(project_name) }

----------------------------------------------------------------------------
(* GEEService.validate_date_range *)

\* basic_info and basic_info.get('type') == 'IMAGE'
IsSingleImageMut(info) == FALSE
IsSingleImage(info) ==
    /\ ~info.raised
    /\ info.val.kind = "dict"
    /\ info.val.type = "IMAGE"

\* dataset_start <= selected_end and selected_start <= dataset_end
RangesOverlapMut(dataset_start, dataset_end, selected_start, selected_end) ==
    dataset_start <= selected_start /\ selected_end <= dataset_end
RangesOverlap(dataset_start, dataset_end, selected_start, selected_end) ==
    dataset_start <= selected_end /\ selected_start <= dataset_end

\* the body of the inner try, once the timestamps are there: a value or raise
DateRangeCheck(dates, start_date, end_date) ==
    IF dates.kind = "none" \/ dates.items = {} THEN Ok(TRUE)
    ELSE LET dataset_start == FromTimestamp(Min(dates.items))
             dataset_end == FromTimestamp(Max(dates.items))
             selected_start == Strptime(start_date)
             selected_end == Strptime(end_date)
         IN  IF selected_start.raised THEN selected_start
             ELSE IF selected_end.raised THEN selected_end
             ELSE Ok(RangesOverlap(dataset_start, dataset_end,
                                   selected_start.val, selected_end.val))

\* what the handlers of the inner and outer try return for an exception
OnValidationErrorMut == FALSE
OnValidationError == TRUE

\* the value validate_date_range returns, given the outcomes of its remote
\* calls (agg = NotCalled when the code does not reach the timestamps)
validate_date_range(start_date, end_date, info, agg) ==
    IF info.raised THEN OnValidationError
    ELSE IF IsSingleImage(info) THEN TRUE
    ELSE IF agg.raised THEN OnValidationError
    ELSE LET checked == DateRangeCheck(agg.val, start_date, end_date)
         IN  IF checked.raised THEN OnValidationError ELSE checked.val

\* every run of validate_date_range over the asset: remote calls and result;
\* the code asks for the timestamps only past the metadata lookup and the
\* IMAGE shortcut
ValidateRuns(asset, start_date, end_date) ==
    UNION {
        IF ~info.raised /\ ~IsSingleImage(info)
        THEN { [calls |-> << Call("getInfo", info), Call("aggregate_array", agg) >>,
                result |-> validate_date_range(start_date, end_date, info, agg)]
               : agg \in AggregateOutcomes(asset) }
        ELSE { [calls |-> << Call("getInfo", info) >>,
                result |-> validate_date_range(start_date, end_date, info, NotCalled)] }
        : info \in GetInfoOutcomes(asset) }

----------------------------------------------------------------------------
(* The engine's job list *)

\* an entry of ee.data.getTaskList() that is a dict; a key it lacks is Absent
TaskEntry(id, state, progress, error_message) ==
    [kind |-> "dict", id |-> id, state |-> state, progress |-> progress,
     error_message |-> error_message]

ProgressValues ==
    { Absent, None, PyInt(0), PyInt(37), PyInt(100), PyInt(150),
      PyFloat(0), PyFloat(3), PyFloat(FracDen), PyFloat(12) }

\* entries of any state and progress under the id 1, as a number or a string
JobEntries ==
    { TaskEntry(id, st, pr, Absent) :
        id \in {PyInt(1), PyStr("1")},
        st \in { PyStr("READY"), PyStr("RUNNING"), PyStr("COMPLETED"), PyStr("FAILED"),
                 PyStr("CANCELLED"), PyStr("CANCEL_REQUESTED"), None, Absent },
        pr \in ProgressValues }
    \cup { TaskEntry(id, PyStr("FAILED"), pr, PyStr("Out of memory")) :
            id \in {PyInt(1), PyStr("1")}, pr \in ProgressValues }

\* entries of other shapes: no dict, a dict without id, other jobs
ForeignEntries ==
    { PyStr("junk"),
      TaskEntry(Absent, PyStr("RUNNING"), PyInt(10), Absent),
      TaskEntry(PyInt(2), PyStr("RUNNING"), PyFloat(4), Absent),
      TaskEntry(PyStr("1"), Absent, Absent, Absent) }

RECURSIVE SeqsUpTo(_, _)
SeqsUpTo(S, n) ==
    IF n = 0 THEN {<<>>}
    ELSE SeqsUpTo(S, n - 1)
         \cup {Append(q, x) : q \in {r \in SeqsUpTo(S, n - 1) : Len(r) = n - 1}, x \in S}

\* the job lists the engine can hold when the service starts
JobLists ==
    { f \o j : f \in SeqsUpTo(ForeignEntries, MaxForeign),
               j \in {<<>>} \cup {<<e>> : e \in JobEntries} }


----------------------------------------------------------------------------
(* GEEService.get_task_status *)

StatusResult(status, progress, error) ==
    [status |-> status, progress |-> progress, error |-> error]

\* isinstance(t, dict) and 'id' in t and str(t['id']) == task_id
EntryMatchesMut(t, task_id) ==
    t.kind = "dict" /\ t.id # Absent /\ t.id = PyStr(task_id)
EntryMatches(t, task_id) ==
    t.kind = "dict" /\ t.id # Absent /\ ToStr(t.id) = task_id

\* the linear scan: the first matching entry, None without one
FindTask(list, task_id) ==
    IF \E i \in 1..Len(list) : EntryMatches(list[i], task_id)
    THEN list[Min({i \in 1..Len(list) : EntryMatches(list[i], task_id)})]
    ELSE None

\* the result for a job the scan did not find
TaskNotFoundMut == StatusResult(PyStr("UNKNOWN"), PyInt(0), None)
TaskNotFound ==
    StatusResult(PyStr("FAILED"), PyInt(0), PyStr("Task not found or may have expired"))

\* task.get('state', 'UNKNOWN')
StateOf(task) == IF task.state = Absent THEN PyStr("UNKNOWN") ELSE task.state

\* progress by state: 100 when COMPLETED, 0 when FAILED or CANCELLED, else
\* task.get('progress', 0), None turned into 0 and a float into int(p * 100)
ProgressOfMut(task, state) ==
    IF task.progress = Absent \/ task.progress = None THEN PyInt(0)
    ELSE IF task.progress.kind = "float"
    THEN PyInt(TruncDiv(task.progress.val * 100, FracDen))
    ELSE task.progress
ProgressOf(task, state) ==
    IF state = PyStr("COMPLETED") THEN PyInt(100)
    ELSE IF state = PyStr("FAILED") \/ state = PyStr("CANCELLED") THEN PyInt(0)
    ELSE IF task.progress = Absent \/ task.progress = None THEN PyInt(0)
    ELSE IF task.progress.kind = "float"
    THEN PyInt(TruncDiv(task.progress.val * 100, FracDen))
    ELSE task.progress

\* the part of the try block from the job list on: a result, or the
\* exception that len(tasks) raises for a value that is no list
ScanResult(fetched, task_id) ==
    IF fetched.raised THEN fetched
    ELSE IF fetched.val.kind # "list"
    THEN Raise("TypeError", <<"object", "of", "type", "NoneType", "has", "no", "len()">>)
    ELSE LET task == FindTask(fetched.val.items, ToStr(task_id))
         IN  IF task = None THEN Ok(TaskNotFound)
             ELSE Ok(StatusResult(StateOf(task), ProgressOf(task, StateOf(task)),
                                  IF task.error_message = Absent THEN None
                                  ELSE task.error_message))

\* the outer handler: every exception becomes a FAILED record
StatusOrFailureMut(scanned) ==
    IF scanned.raised
    THEN [raised |-> TRUE, result |-> None]
    ELSE [raised |-> FALSE, result |-> scanned.val]
StatusOrFailure(scanned) ==
    IF scanned.raised
    THEN [raised |-> FALSE,
          result |-> StatusResult(PyStr("FAILED"), PyInt(0),
                        PyStr("Error checking task status: " \o JoinWords(scanned.msg)))]
    ELSE [raised |-> FALSE, result |-> scanned.val]

\* the project get_task_status initializes the session with: the caller's,
\* or the built-in default without one
StatusProject(project_name) ==
    IF project_name # NoProject THEN project_name ELSE "ee-thrcle421"

\* every run of get_task_status(task_id, project_name) over the job list
StatusRuns(list, task_id, project_name, sess) ==
    { LET out == StatusOrFailure(ScanResult(fetched, task_id))
      IN  [calls |-> << Call("Initialize", init), Call("getTaskList", fetched) >>,
           result |-> out.result,
           raised |-> out.raised,
           session |-> SessionAfter(sess, StatusProject(project_name), init)]
      : init \in InitializeOutcomes(StatusProject(project_name)),
        fetched \in { Ok(PyList(list)), Ok(None), TransientError } }

----------------------------------------------------------------------------
(* GEEService.get_dataset_temporal_info *)

MsPerDay == SecondsPerDay * MsPerSecond

\* datetime.fromtimestamp(ms / 1000).strftime('%Y-%m-%d')
DateOfTimestamp(ms) == DateStr(FromTimestamp(ms) \div SecondsPerDay)

\* ee.Image(id).get('system:time_start').getInfo()
ImageTimeOutcomes(asset) ==
    {TransientError}
    \cup (IF asset.kind # "IMAGE" THEN {Raise("EEException", NotAnImage)}
          ELSE IF asset.times = {} THEN {Ok(None)}
          ELSE {Ok(PyInt(Min(asset.times)))})

TemporalInfo(start_date, end_date) ==
    [start_date |-> start_date, end_date |-> end_date]

\* the result once both lookups are made (the timestamps of the modelled
\* period are non-zero numbers: `if date:` holds for each of them)
TemporalResult(image_time, agg) ==
    IF ~image_time.raised /\ image_time.val.kind = "int"
    THEN TemporalInfo(PyStr(DateOfTimestamp(image_time.val.val)),
                      PyStr(DateOfTimestamp(image_time.val.val)))
    ELSE IF ~agg.raised /\ agg.val.kind = "list" /\ agg.val.items # {}
    THEN TemporalInfo(PyStr(DateOfTimestamp(Min(agg.val.items))),
                      PyStr(DateOfTimestamp(Max(agg.val.items))))
    ELSE TemporalInfo(None, None)

\* the lookups of get_dataset_temporal_info after the calls made so far
TemporalLookups(asset, calls, sess) ==
    UNION {
        IF ~image_time.raised /\ image_time.val.kind = "int"
        THEN { Run(calls \o <<Call("Image.time_start", image_time)>>,
                   TemporalResult(image_time, NotCalled), sess) }
        ELSE { Run(calls \o <<Call("Image.time_start", image_time),
                              Call("aggregate_array", agg)>>,
                   TemporalResult(image_time, agg), sess)
               : agg \in AggregateOutcomes(asset) }
        : image_time \in ImageTimeOutcomes(asset) }

\* every run of get_dataset_temporal_info(dataset_id, project_name), after the
\* calls made so far
TemporalInfoRuns(asset, project_name, calls, sess) ==
    IF project_name = NoProject THEN TemporalLookups(asset, calls, sess)
    ELSE UNION {
        TemporalLookups(asset, calls \o <<Call("Initialize", init)>>,
                        SessionAfter(sess, project_name, init))
        : init \in InitializeOutcomes(project_name) }

----------------------------------------------------------------------------
(* GEEService.start_download_task *)

\* the failures of the engine that say nothing about the asset
Faults(calls) ==
    Cardinality({i \in 1..Len(calls) :
        /\ calls[i].ret.raised
        /\ calls[i].ret.msg \in {ConnectionReset, CallerLacksPermission, ProjectNotFound}})
\* the engine fails at most MaxFaults of the calls of an export request
Within(calls) == Faults(calls) <= MaxFaults

\* the region argument: a string with what geojson.loads makes of it, or a
\* value passed as it is
RegionString(parsed) == [kind |-> "str", parsed |-> parsed]
Polygon(ring) == [kind |-> "dict", type |-> "Polygon", ring |-> ring]
Feature(geometry) == [kind |-> "dict", geometry |-> geometry]
FeatureCollection(features) == [kind |-> "dict", features |-> features]

ValidRegion == RegionString(Ok(FeatureCollection(PyList(<<Feature(Polygon("r1"))>>))))
Regions ==
    { ValidRegion,
      RegionString(Raise("JSONDecodeError", <<"Expecting", "value">>)),
      RegionString(Ok(None)),
      RegionString(Ok(PyList(<<>>))),
      RegionString(Ok(FeatureCollection(Absent))),
      RegionString(Ok(FeatureCollection(PyList(<<>>)))),
      RegionString(Ok(FeatureCollection(PyList(<<Feature(Absent)>>)))),
      RegionString(Ok(FeatureCollection(PyStr("none")))),
      RegionString(Ok(FeatureCollection(PyList(<<None>>)))),
      RegionString(Ok(FeatureCollection(PyList(<<Feature([kind |-> "dict", type |-> "Bogus", ring |-> "r1"])>>)))),
      RegionString(Ok(FeatureCollection(
          PyList(<<Feature(Polygon("r1")), Feature(Polygon("r2"))>>)))),
      [kind |-> "value",
       parsed |-> Ok(FeatureCollection(PyList(<<Feature(Polygon("r2"))>>)))] }

\* ee.Geometry(geo_json): the geometry, or an error for a type it does not know
EEGeometry(geo_json) ==
    IF geo_json.type = "Polygon" THEN Ok([geometry |-> geo_json])
    ELSE Raise("EEException", <<"Invalid", "GeoJSON", "geometry">>)

\* region_geom['features'][0]['geometry']: the value, or the exception of a
\* subscript that the value does not take
FirstGeometry(features) ==
    IF features.kind # "list"
    THEN Raise("TypeError", <<"string", "indices", "must", "be", "integers">>)
    ELSE IF features.items[1].kind # "dict"
    THEN Raise("TypeError", <<"'NoneType'", "object", "is", "not", "subscriptable">>)
    ELSE IF features.items[1].geometry = Absent
    THEN Raise("KeyError", <<"'geometry'">>)
    ELSE Ok(features.items[1].geometry)

\* the region step: the geometry, or the error message the step returns
ParseRegionMut(region) ==
    IF region.parsed.raised
    THEN Raise("error", "Invalid region format: " \o JoinWords(region.parsed.msg))
    ELSE Ok([geometry |-> None])
ParseRegion(region) ==
    IF region.parsed.raised
    THEN Raise("error", "Invalid region format: " \o JoinWords(region.parsed.msg))
    ELSE LET region_geom == region.parsed.val
         IN  IF \/ region_geom.kind # "dict"
                \/ region_geom.features = Absent
                \/ ~Truthy(region_geom.features)
             THEN Raise("error", "Invalid region format: missing features or invalid structure")
             ELSE LET first == FirstGeometry(region_geom.features)
                      g == IF first.raised THEN first ELSE EEGeometry(first.val)
                  IN  IF g.raised
                      THEN Raise("error", "Invalid region format: " \o JoinWords(g.msg))
                      ELSE g

\* ee.Number(1).add(2).getInfo()
NumberTestOutcomes ==
    { Ok(PyInt(3)), Ok(PyInt(0)), TransientError,
      Raise("EEException", CallerLacksPermission) }

ProjectPermissionError(project_name) ==
    "Permission error: Caller does not have required permission to use project "
    \o project_name \o ". Please check your project ID."

\* the session step: the calls, the error it returns (Absent to go on) and
\* the session it leaves
SessionStep(calls, error, sess) == [calls |-> calls, error |-> error, session |-> sess]
SessionRuns(project_name, sess) ==
    IF project_name = NoProject THEN { SessionStep(<<>>, Absent, sess) }
    ELSE UNION {
        IF init.raised
        THEN { SessionStep(<<Call("Initialize", init)>>,
                           IF IsProjectPermissionError(init.msg)
                           THEN PyStr(ProjectPermissionError(project_name))
                           ELSE Absent,
                           sess) }
        ELSE { SessionStep(<<Call("Initialize", init), Call("Number.getInfo", test)>>,
                   IF test.raised
                   THEN IF IsProjectPermissionError(test.msg)
                        THEN PyStr(ProjectPermissionError(project_name))
                        ELSE Absent
                   ELSE IF test.val # PyInt(3)
                   THEN PyStr("Failed to initialize Earth Engine with project ID: "
                              \o project_name \o ". Test operation failed.")
                   ELSE Absent,
                   project_name)
               : test \in NumberTestOutcomes }
        : init \in InitializeOutcomes(project_name) }

\* collection.filterDate(start, end).select(band).size().getInfo(): the items
\* from start on and before end, or an error (for dates the engine cannot
\* read, and possibly for a range that ends before it starts)
FilteredSizeOutcomes(asset, start_date, end_date) ==
    LET s == Strptime(start_date)
        e == Strptime(end_date)
    IN  {TransientError}
        \cup (IF asset.kind # "IMAGE_COLLECTION"
              THEN {Raise("EEException", NotACollection)}
              ELSE IF s.raised \/ e.raised
              THEN {Raise("EEException", <<"Invalid", "date">>)}
              ELSE { Ok(PyInt(Cardinality({t \in asset.times :
                           s.val * MsPerSecond <= t /\ t < e.val * MsPerSecond}))) }
                   \cup (IF e.val < s.val
                         THEN {Raise("EEException", <<"Empty", "date", "range">>)}
                         ELSE {}))

\* collection_size == 0
IsEmptySelectionMut(size) == FALSE
IsEmptySelection(size) == size.val = PyInt(0)

\* the message for a collection without data in the range
NoDataError(start_date, end_date, date_info) ==
    "No data available for the selected date range (" \o start_date \o " to "
    \o end_date \o ")."
    \o (IF date_info.start_date # None /\ date_info.end_date # None
        THEN " Data is available from " \o date_info.start_date.val \o " to "
             \o date_info.end_date.val \o "."
        ELSE "")
    \o " Please try a different date range."

\* str.split('/'): the segments between the separators
RECURSIVE Split(_)
Split(cs) ==
    IF \A i \in 1..Len(cs) : cs[i] # "/" THEN <<cs>>
    ELSE LET i == Min({k \in 1..Len(cs) : cs[k] = "/"})
         IN  <<SubSeq(cs, 1, i - 1)>> \o Split(SubSeq(cs, i + 1, Len(cs)))

\* dataset_id.split('/')[-1] for an id with a '/', else the id itself
\* (replace('/', '_') finds nothing to replace)
FilenameBase(dataset_id) ==
    IF \E i \in 1..Len(dataset_id) : dataset_id[i] = "/"
    THEN Split(dataset_id)[Len(Split(dataset_id))]
    ELSE dataset_id

\* f"{filename_base}_{variable}_{date_suffix}"
OutputNameMut(dataset_id, variable, start_date, end_date) ==
    JoinChars(FilenameBase(dataset_id)) \o "_" \o variable \o "_"
    \o start_date \o "_" \o end_date
OutputName(dataset_id, variable, start_date, end_date) ==
    JoinChars(FilenameBase(dataset_id)) \o "_" \o variable \o "_"
    \o (IF start_date # end_date THEN start_date \o "_to_" \o end_date ELSE start_date)

\* task.start(): the engine accepts the job under an id of its choice, a
\* number or a string, or refuses
StartOutcomes(n) == { Ok(PyInt(n)), Ok(PyStr(Digits[n + 1])), TransientError }

ExportErrorMut(message) ==
    [error |-> PyStr("Export failed"), task_id |-> Absent, status |-> Absent,
     description |-> Absent, folder |-> Absent, filename |-> Absent]
ExportError(message) ==
    [error |-> PyStr(message), task_id |-> Absent, status |-> Absent,
     description |-> Absent, folder |-> Absent, filename |-> Absent]

NoJob == [kind |-> "none"]
\* a run of start_download_task: the job is the entry the engine adds to its
\* list, NoJob when none was started
ExportRun(calls, result, sess, job) ==
    [calls |-> calls, result |-> result, session |-> sess, job |-> job]

\* ee.batch.Export.image.toDrive(...) and task.start()
SubmitRuns(req, image, ee_geometry, calls, sess, n) ==
    LET output_name == OutputName(req.dataset_id, req.variable, req.start_date, req.end_date)
        export == [call |-> "Export.image.toDrive",
                   ret |-> Ok(None),
                   image |-> image,
                   description |-> output_name,
                   folder |-> req.folder_name,
                   region |-> ee_geometry,
                   scale |-> req.scale,
                   fileFormat |-> req.export_format]
    IN  { IF started.raised
          THEN ExportRun(calls \o <<export, Call("task.start", started)>>,
                   ExportError("Failed to start export task: " \o JoinWords(started.msg)),
                   sess, NoJob)
          ELSE ExportRun(calls \o <<export, Call("task.start", started)>>,
                   [error |-> Absent,
                    task_id |-> PyStr(ToStr(started.val)),
                    status |-> PyStr("STARTED"),
                    description |-> PyStr(output_name),
                    folder |-> PyStr(req.folder_name),
                    filename |-> PyStr(output_name \o "."
                                       \o LowerWord(req.export_format))],
                   sess,
                   TaskEntry(started.val, PyStr("READY"), Absent, Absent))
          : started \in {x \in StartOutcomes(n) :
                            Within(calls \o <<export, Call("task.start", x)>>)} }

\* the export image by kind: the band of the image, or the mean of the band
\* over the items of the range
BuildRuns(req, asset, is_collection, ee_geometry, calls, sess, n) ==
    IF ~is_collection
    THEN SubmitRuns(req, [source |-> "Image", band |-> req.variable, reducer |-> "none"],
                    ee_geometry, calls, sess, n)
    ELSE UNION {
        LET calls1 == calls \o <<Call("filtered.size", size)>>
        IN  IF size.raised
            THEN { ExportRun(calls1,
                       ExportError("Failed to process dataset: " \o JoinWords(size.msg)),
                       sess, NoJob) }
            ELSE IF IsEmptySelection(size)
            THEN { ExportRun(t.calls,
                       ExportError(NoDataError(req.start_date, req.end_date, t.result)),
                       t.session, NoJob)
                   : t \in {x \in TemporalInfoRuns(asset, req.project_name, calls1, sess) :
                              Within(x.calls)} }
            ELSE SubmitRuns(req,
                     [source |-> "ImageCollection", band |-> req.variable, reducer |-> "mean"],
                     ee_geometry, calls1, sess, n)
        : size \in {x \in FilteredSizeOutcomes(asset, req.start_date, req.end_date) :
                        Within(calls \o <<Call("filtered.size", x)>>)} }


\* `not validate_date_range(...)`, then the build step
StartFromValidation(req, asset, info, ee_geometry, calls, sess, n) ==
    UNION {
        IF ~v.result
        THEN { ExportRun(calls \o v.calls,
                   ExportError("Selected date range is not available for this dataset"),
                   sess, NoJob) }
        ELSE BuildRuns(req, asset, info.type = "IMAGE_COLLECTION", ee_geometry,
                       calls \o v.calls, sess, n)
        : v \in {x \in ValidateRuns(asset, req.start_date, req.end_date) :
                     Within(calls \o x.calls)} }

\* check_dataset_access, then the validation step
StartFromAccess(req, asset, ee_geometry, calls, sess, n) ==
    UNION {
        IF ~a.result.success
        THEN { ExportRun(calls \o a.calls, ExportError(AccessErrorMessage(a.result)),
                         a.session, NoJob) }
        ELSE StartFromValidation(req, asset, a.result.info, ee_geometry,
                                 calls \o a.calls, a.session, n)
        : a \in {x \in CheckAccessRuns(asset, req.project_name, sess) :
                     Within(calls \o x.calls)} }

\* every run of start_download_task(...) over the asset; n is the number the
\* engine has for the next job
StartRuns(req, asset, sess, n) ==
    UNION {
        IF s.error # Absent
        THEN { ExportRun(s.calls, ExportError(s.error.val), s.session, NoJob) }
        ELSE LET g == ParseRegion(req.region)
             IN  IF g.raised
                 THEN { ExportRun(s.calls, ExportError(g.msg), s.session, NoJob) }
                 ELSE StartFromAccess(req, asset, g.val, s.calls, s.session, n)
        : s \in SessionRuns(req.project_name, sess) }

----------------------------------------------------------------------------
(* GEEService.get_download_url *)

PyTrue == [kind |-> "bool", val |-> TRUE]

UrlError(message) ==
    [error |-> PyStr(message), success |-> Absent, url |-> Absent,
     filename |-> Absent, folder |-> Absent]

\* the region step of get_download_url: the subscripts without any check of
\* the structure, every exception caught
UrlRegion(region) ==
    LET first ==
            IF region.parsed.raised THEN region.parsed
            ELSE IF region.parsed.val.kind = "none"
            THEN Raise("TypeError", <<"'NoneType'", "object", "is", "not", "subscriptable">>)
            ELSE IF region.parsed.val.kind = "list"
            THEN Raise("TypeError", <<"list", "indices", "must", "be", "integers">>)
            ELSE IF region.parsed.val.features = Absent
            THEN Raise("KeyError", <<"'features'">>)
            ELSE IF region.parsed.val.features = PyList(<<>>)
            THEN Raise("IndexError", <<"list", "index", "out", "of", "range">>)
            ELSE FirstGeometry(region.parsed.val.features)
        g == IF first.raised THEN first ELSE EEGeometry(first.val)
    IN  IF g.raised
        THEN Raise("error", "Invalid region format: " \o JoinWords(g.msg))
        ELSE g

\* f'{filename_base}_{variable}_{start_date}_{end_date}'
UrlOutputName(dataset_id, variable, start_date, end_date) ==
    JoinChars(FilenameBase(dataset_id)) \o "_" \o variable \o "_"
    \o start_date \o "_" \o end_date

\* image.getDownloadURL({...}): a URL for an image, an error for anything else
DownloadUrlOutcomes(asset, is_mean, output_name) ==
    { TransientError, Raise("EEException", <<"Permission", "denied", "on", "resource">>) }
    \cup (IF asset.kind = "IMAGE" \/ is_mean
          THEN {Ok(PyStr("https://earthengine.googleapis.com/download/" \o output_name))}
          ELSE {Raise("EEException", NotAnImage)})

\* the handler of the direct-access try: 'permission' in error_msg.lower()
UrlFailure(exc) ==
    IF Contains(Lower(exc.msg), <<"permission">>)
    THEN UrlError("Permission error: You may not have access to download this dataset. Try using the Earth Engine Code Editor directly. Error: "
                  \o JoinWords(exc.msg))
    ELSE UrlError("Failed to process or download dataset: " \o JoinWords(exc.msg))

\* the region, the name and the URL request, after the calls made so far
UrlFromRegion(req, asset, is_mean, calls, sess) ==
    LET g == UrlRegion(req.region)
        output_name == UrlOutputName(req.dataset_id, req.variable,
                                     req.start_date, req.end_date)
    IN  IF g.raised THEN { Run(calls, UrlError(g.msg), sess) }
        ELSE { LET request == [call |-> "getDownloadURL", ret |-> url,
                               name |-> output_name, region |-> g.val,
                               scale |-> req.scale,
                               format |-> LowerWord(req.export_format)]
               IN  Run(calls \o <<request>>,
                       IF url.raised THEN UrlFailure(url)
                       ELSE [error |-> Absent, success |-> PyTrue, url |-> url.val,
                             filename |-> PyStr(output_name \o "."
                                                \o LowerWord(req.export_format)),
                             folder |-> PyStr(req.folder_name)],
                       sess)
               : url \in DownloadUrlOutcomes(asset, is_mean, output_name) }

\* the image, as an image first and as the mean of a collection when the
\* construction raises: ee.Image(dataset_id).select(variable) is a local
\* construction, which raises only when the client library is not ready
UrlFromImage(req, asset, calls, sess) ==
    UNION {
        IF ~built.raised THEN UrlFromRegion(req, asset, FALSE, calls, sess)
        ELSE UNION {
            LET calls1 == calls \o <<Call("filtered.size", size)>>
            IN  IF size.raised THEN { Run(calls1, UrlFailure(size), sess) }
                ELSE IF size.val = PyInt(0)
                THEN { Run(calls1,
                           UrlError("No data available for the selected parameters"),
                           sess) }
                ELSE UrlFromRegion(req, asset, TRUE, calls1, sess)
            : size \in FilteredSizeOutcomes(asset, req.start_date, req.end_date) }
        : built \in { Ok(None),
                      Raise("EEException", <<"Earth", "Engine", "client", "library",
                                             "not", "initialized">>) } }

\* every run of get_download_url(...) over the asset
UrlRuns(req, asset, sess) ==
    IF req.project_name = NoProject THEN UrlFromImage(req, asset, <<>>, sess)
    ELSE UNION {
        UrlFromImage(req, asset, <<Call("Initialize", init)>>,
                     SessionAfter(sess, req.project_name, init))
        : init \in InitializeOutcomes(req.project_name) }

----------------------------------------------------------------------------
(* GEEService.check_auth_status *)

NotRegistered == <<"Not", "registered", "for", "Earth", "Engine">>
NotAuthorized == <<"Client", "not", "authorized">>

AuthReply(authenticated, message) ==
    [authenticated |-> authenticated,
     status |-> IF authenticated THEN "success" ELSE "error",
     message |-> message]

\* the two handlers: `except ee.EEException` with its three branches, and
\* `except Exception`
AuthFailure(exc) ==
    IF exc.type # "EEException"
    THEN AuthReply(FALSE, PyStr("Authentication check failed: " \o JoinWords(exc.msg)))
    ELSE IF Contains(Lower(exc.msg), <<"not", "registered">>)
    THEN AuthReply(FALSE,
             PyStr("Please complete your registration at https://signup.earthengine.google.com/"))
    ELSE IF Contains(Lower(exc.msg), <<"not", "authorized">>)
    THEN AuthReply(FALSE,
             PyStr("Please authenticate at https://code.earthengine.google.com first."))
    ELSE AuthReply(FALSE, PyStr("Authentication failed: " \o JoinWords(exc.msg)))

\* every run of check_auth_status over a request body that names project_id
\* (NoProject: no body, no JSON or no id): the account may also be one the
\* engine does not know, and the connection may fail below the library
AuthRuns(project_id, sess) ==
    IF project_id = NoProject
    THEN { Run(<<>>, AuthReply(FALSE, PyStr("Please enter your GEE Project ID")), sess) }
    ELSE UNION {
        IF init.raised
        THEN { Run(<<Call("Initialize", init)>>, AuthFailure(init), sess) }
        ELSE { Run(<<Call("Initialize", init), Call("Number.getInfo", test)>>,
                   IF test.raised THEN AuthFailure(test)
                   ELSE IF test.val = PyInt(3) THEN AuthReply(TRUE, Absent)
                   ELSE AuthReply(FALSE,
                            PyStr("API test failed. Please try authenticating again.")),
                   project_id)
               : test \in NumberTestOutcomes }
        : init \in InitializeOutcomes(project_id)
                   \cup { Raise("EEException", NotRegistered),
                          Raise("EEException", NotAuthorized),
                          Raise("OSError", ConnectionReset) } }

----------------------------------------------------------------------------
(* ee_download.download_ee_to_drive *)

\* a run of download_ee_to_drive: the ids it returns or the exception it
\* raises, and the entries the engine adds to its job list
DriveRun(calls, result, raised, sess, jobs) ==
    [calls |-> calls, result |-> result, raised |-> raised, session |-> sess,
     jobs |-> jobs]

\* ee.Date(collection.first().get('system:time_start')).format(...).getInfo(),
\* and the same over the collection sorted downwards
EdgeDateOutcomes(asset, ascending) ==
    {TransientError}
    \cup (IF asset.kind # "IMAGE_COLLECTION"
          THEN {Raise("EEException", NotACollection)}
          ELSE IF asset.times = {}
          THEN {Raise("EEException", <<"Date:", "Parameter", "'value'", "is", "required">>)}
          ELSE {Ok(PyStr(DateOfTimestamp(IF ascending THEN Min(asset.times)
                                         ELSE Max(asset.times))))})

\* one pass of the loop over the dates, every exception caught and printed:
\* collection.filterDate(date, date + 1 day).select(band).first().getInfo()
\* gives the item of the day or None
DriveDate(date, asset, acc, n) ==
    UNION {
        LET calls1 == acc.calls \o <<Call("first.getInfo", image_info)>>
        IN  IF image_info.raised THEN { [acc EXCEPT !.calls = calls1] }
            ELSE IF image_info.val = None
            THEN { [acc EXCEPT !.calls = calls1,
                               !.no_data_dates = Append(acc.no_data_dates, date)] }
            ELSE { LET calls2 == calls1 \o <<Call("Export.image.toDrive", Ok(None)),
                                              Call("task.start", started)>>
                   IN  IF started.raised THEN [acc EXCEPT !.calls = calls2]
                       ELSE [acc EXCEPT
                               !.calls = calls2,
                               !.task_ids = Append(acc.task_ids, started.val),
                               !.jobs = <<TaskEntry(started.val, PyStr("READY"),
                                                    Absent, Absent)>> \o acc.jobs]
                   : started \in StartOutcomes(n + Len(acc.jobs)) }
        : image_info \in
            LET from == Strptime(date).val * MsPerSecond
            IN  {TransientError}
                \cup (IF \E t \in asset.times : from <= t /\ t < from + MsPerDay
                      THEN {Ok([kind |-> "dict", type |-> "Image"])}
                      ELSE {Ok(None)}) }

RECURSIVE DriveLoop(_, _, _, _)
DriveLoop(dates, asset, acc, n) ==
    IF dates = <<>> THEN {acc}
    ELSE UNION { DriveLoop(Tail(dates), asset, step, n)
                 : step \in DriveDate(Head(dates), asset, acc, n) }

\* the end of the function: the ids, or ValueError when no task was started
DriveResult(acc, sess) ==
    IF acc.task_ids # <<>>
    THEN DriveRun(acc.calls, PyList(acc.task_ids), FALSE, sess, acc.jobs)
    ELSE IF acc.no_data_dates # <<>>
    THEN DriveRun(acc.calls,
             Raise("ValueError",
                 <<"No data available for any of the specified dates. Missing dates: "
                   \o JoinWords([i \in 1..Len(acc.no_data_dates) |->
                                   IF i < Len(acc.no_data_dates)
                                   THEN acc.no_data_dates[i] \o ","
                                   ELSE acc.no_data_dates[i]])>>),
             TRUE, sess, <<>>)
    ELSE DriveRun(acc.calls,
             Raise("ValueError",
                 <<"No tasks were started. Check that your date range and dataset are valid.">>),
             TRUE, sess, <<>>)

\* the dates, the two edge dates and the loop, after the session step;
\* date_list holds the dates from start to end, both included, and none when
\* start is after end
DriveFromDates(start_date, end_date, asset, calls, sess, n) ==
    LET start_dt == Strptime(start_date)
        end_dt == Strptime(end_date)
        date_list == [i \in 1..((end_dt.val - start_dt.val) \div SecondsPerDay + 1)
                        |-> DateStr(start_dt.val \div SecondsPerDay + i - 1)]
    IN  IF start_dt.raised THEN { DriveRun(calls, start_dt, TRUE, sess, <<>>) }
        ELSE IF end_dt.raised THEN { DriveRun(calls, end_dt, TRUE, sess, <<>>) }
        ELSE UNION {
            LET calls1 == calls \o <<Call("first.getInfo", first_date)>>
            IN  IF first_date.raised
                THEN { DriveRun(calls1, first_date, TRUE, sess, <<>>) }
                ELSE UNION {
                    LET calls2 == calls1 \o <<Call("first.getInfo", last_date)>>
                    IN  IF last_date.raised
                        THEN { DriveRun(calls2, last_date, TRUE, sess, <<>>) }
                        ELSE { DriveResult(acc, sess)
                               : acc \in DriveLoop(date_list, asset,
                                            [calls |-> calls2, task_ids |-> <<>>,
                                             no_data_dates |-> <<>>, jobs |-> <<>>], n) }
                    : last_date \in EdgeDateOutcomes(asset, FALSE) }
            : first_date \in EdgeDateOutcomes(asset, TRUE) }

\* every run of download_ee_to_drive(start_date, end_date, ...) over the
\* collection; n is the number the engine has for the next job
DriveRuns(start_date, end_date, asset, project_name, sess, n) ==
    IF project_name = NoProject
    THEN DriveFromDates(start_date, end_date, asset, <<>>, sess, n)
    ELSE UNION {
        IF init.raised /\ IsProjectPermissionError(init.msg)
        THEN { DriveRun(<<Call("Initialize", init)>>,
                   Raise("ValueError",
                       <<"Permission error with project ID '" \o project_name \o "': "
                         \o JoinWords(init.msg)>>),
                   TRUE, sess, <<>>) }
        ELSE DriveFromDates(start_date, end_date, asset, <<Call("Initialize", init)>>,
                            SessionAfter(sess, project_name, init), n)
        : init \in InitializeOutcomes(project_name) }

----------------------------------------------------------------------------
(* views.py: the endpoints around the service *)

\* JsonResponse(body, status=code), 200 without a status; redirect(...) is 302
Response(code, body) == [code |-> code, body |-> body]

\* GEEService.initialize(): ee.Authenticate() and ee.Initialize() without a
\* project, which binds the session to the default of the credentials
\* ("unset"); False when either raises
EnsureAuth(sess) ==
    { [calls |-> <<Call("Initialize", init)>>, ok |-> ~init.raised,
       session |-> IF init.raised THEN sess ELSE "unset"]
      : init \in {Ok(None), TransientError} }

\* every run of the task-status endpoint over the job list: the direct scan
\* of the list, and the service when the scan finds nothing or fails
StatusViewRuns(list, task_id, project_id, sess) ==
    UNION {
        IF ~a.ok THEN { Run(a.calls, Response(302, PyStr("auth")), a.session) }
        ELSE UNION {
            LET sess1 == SessionAfter(a.session, StatusProject(project_id), init)
                calls1 == a.calls \o <<Call("Initialize", init), Call("getTaskList", fetched)>>
                matching_task ==
                    IF fetched.raised \/ fetched.val.kind # "list" THEN None
                    ELSE FindTask(fetched.val.items, task_id.val)
            IN  IF matching_task # None
                THEN { Run(calls1,
                           Response(200,
                               StatusResult(
                                   StateOf(matching_task),
                                   IF matching_task.progress = Absent THEN PyInt(0)
                                   ELSE matching_task.progress,
                                   IF matching_task.error_message = Absent THEN None
                                   ELSE matching_task.error_message)),
                           sess1) }
                ELSE { Run(calls1 \o r.calls, Response(200, r.result), r.session)
                       : r \in StatusRuns(list, task_id, StatusProject(project_id), sess1) }
            : init \in InitializeOutcomes(StatusProject(project_id)),
              fetched \in { Ok(PyList(list)), Ok(None), TransientError } }
        : a \in EnsureAuth(sess) }

\* the body of the download endpoint: an error, or the id of the started job
DownloadBody(error, task_id) ==
    [error |-> error,
     status |-> IF task_id = Absent THEN Absent ELSE PyStr("success"),
     task_id |-> task_id]

\* every run of the download endpoint: the checks of the view in their order,
\* then start_download_task; the engine fails at most MaxFaults of its calls
DownloadViewRuns(req, asset, sess, n) ==
    UNION {
        IF ~a.ok
        THEN { ExportRun(a.calls,
                   Response(401, DownloadBody(PyStr("Authentication required"), Absent)),
                   a.session, NoJob) }
        ELSE IF req.project_name = NoProject
        THEN { ExportRun(a.calls,
                   Response(400, DownloadBody(
                       PyStr("Missing required fields: project_name"), Absent)),
                   a.session, NoJob) }
        ELSE UNION {
            LET sess1 == SessionAfter(a.session, req.project_name, init)
                calls1 == a.calls \o <<Call("Initialize", init)>> \o v.calls
            IN  IF ~v.result
                THEN { ExportRun(calls1,
                           Response(400, DownloadBody(
                               PyStr("Selected date range is not available for this dataset"),
                               Absent)),
                           sess1, NoJob) }
                ELSE UNION {
                    LET calls2 == calls1 \o bands_run.calls
                        variables == bands_run.result.variables
                        region_obj == req.region.parsed
                    IN  IF ~\E i \in 1..Len(variables) : variables[i].id = req.variable
                        THEN { ExportRun(calls2,
                                   Response(400, DownloadBody(
                                       PyStr("Selected variable is not available for this dataset"),
                                       Absent)),
                                   bands_run.session, NoJob) }
                        ELSE IF req.region.kind # "str"
                        THEN { ExportRun(calls2,
                                   Response(400, DownloadBody(
                                       PyStr("Invalid region format: Region must be a GeoJSON string"),
                                       Absent)),
                                   bands_run.session, NoJob) }
                        ELSE IF region_obj.raised
                        THEN { ExportRun(calls2,
                                   Response(400, DownloadBody(
                                       PyStr("Invalid region format: Invalid region format: not a valid JSON string"),
                                       Absent)),
                                   bands_run.session, NoJob) }
                        ELSE IF \/ ~Truthy(region_obj.val)
                                \/ region_obj.val.kind # "dict"
                                \/ region_obj.val.features = Absent
                                \/ ~Truthy(region_obj.val.features)
                        THEN { ExportRun(calls2,
                                   Response(400, DownloadBody(
                                       PyStr("Invalid region format: Invalid region format: missing features or invalid structure"),
                                       Absent)),
                                   bands_run.session, NoJob) }
                        ELSE { ExportRun(calls2 \o r.calls,
                                   IF r.result.error # Absent
                                   THEN Response(400, DownloadBody(r.result.error, Absent))
                                   ELSE Response(200, DownloadBody(Absent, r.result.task_id)),
                                   r.session, r.job)
                               : r \in {x \in StartRuns(req, asset, bands_run.session, n) :
                                           Within(calls2 \o x.calls)} }
                    : bands_run \in {x \in VariablesRuns(req.dataset_id, asset, NoProject, sess1) :
                                   Within(calls1 \o x.calls)} }
            : init \in InitializeOutcomes(req.project_name),
              v \in {x \in ValidateRuns(asset, req.start_date, req.end_date) :
                        Within(x.calls)} }
        : a \in EnsureAuth(sess) }

----------------------------------------------------------------------------
(* State machine *)

Idle == [op |-> "idle"]

\* the threads of the web server that serve requests side by side
Workers == {"w1", "w2"}
Free == [op |-> "free"]

Init ==
    /\ session = "unset"
    /\ tasks = <<>>
    /\ handles = {}
    /\ last = Idle
    /\ inflight = [w \in Workers |-> Free]

\* the caller takes the handler's result; the next request can start
Return ==
    /\ last.op # "idle"
    /\ last' = Idle
    /\ UNCHANGED <<session, tasks, handles, inflight>>

ValidateDateRange ==
    /\ last.op = "idle"
    /\ \E asset \in Assets, start_date \in DateStrings, end_date \in DateStrings :
         \E run \in ValidateRuns(asset, start_date, end_date) :
            last' = [op |-> "validate_date_range",
                     args |-> [start_date |-> start_date, end_date |-> end_date],
                     env |-> asset,
                     calls |-> run.calls,
                     result |-> run.result,
                     raised |-> FALSE]
    /\ UNCHANGED <<session, tasks, handles, inflight>>

\* timestamps play no part in resolving bands beyond a collection having a
\* member or none
GetAvailableVariables ==
    /\ last.op = "idle"
    /\ \E dataset_id \in DatasetIds,
          asset \in {a \in Assets : a.times \subseteq {Min(Instants)}},
          project_name \in Projects \cup {NoProject} :
         \E run \in VariablesRuns(dataset_id, asset, project_name, session) :
            /\ last' = [op |-> "get_available_variables",
                        args |-> [dataset_id |-> dataset_id, project_name |-> project_name],
                        env |-> asset,
                        calls |-> run.calls,
                        access |-> run.access,
                        result |-> run.result,
                        raised |-> FALSE]
            /\ session' = run.session
    /\ UNCHANGED <<tasks, handles, inflight>>

SpecVariables == Init /\ [][GetAvailableVariables \/ Return]_vars

GetTaskStatus ==
    /\ last.op = "idle"
    /\ \E task_id \in { PyStr("1"), PyStr("2"), PyInt(1) } \cup handles,
          project_name \in Projects \cup {NoProject} :
         \E run \in StatusRuns(tasks, task_id, project_name, session) :
            /\ last' = [op |-> "get_task_status",
                        args |-> [task_id |-> task_id, project_name |-> project_name],
                        calls |-> run.calls,
                        result |-> run.result,
                        raised |-> run.raised]
            /\ session' = run.session
    /\ UNCHANGED <<tasks, handles, inflight>>

\* the service starts beside an engine that already holds jobs
InitStatus ==
    /\ session = "unset"
    /\ tasks \in JobLists
    /\ handles = {}
    /\ last = Idle
    /\ inflight = [w \in Workers |-> Free]

SpecStatus == InitStatus /\ [][GetTaskStatus \/ Return]_vars

GetDatasetTemporalInfo ==
    /\ last.op = "idle"
    /\ \E asset \in Assets, project_name \in Projects \cup {NoProject} :
         \E run \in TemporalInfoRuns(asset, project_name, <<>>, session) :
            /\ last' = [op |-> "get_dataset_temporal_info",
                        args |-> [project_name |-> project_name],
                        env |-> asset,
                        calls |-> run.calls,
                        result |-> run.result,
                        raised |-> FALSE]
            /\ session' = run.session
    /\ UNCHANGED <<tasks, handles, inflight>>

SpecValidate == Init /\ [][ValidateDateRange \/ GetDatasetTemporalInfo \/ Return]_vars

\* a request with the defaults of the signature
BaseRequest ==
    [dataset_id |-> <<"A", "/", "B", "/", "C">>,
     start_date |-> DateStr(0),
     end_date |-> DateStr(1),
     variable |-> "temp",
     region |-> ValidRegion,
     export_format |-> "GeoTIFF",
     scale |-> 1000,
     folder_name |-> "GEE-Downloads",
     project_name |-> NoProject]

\* the assets of an export: the band list plays no part in it; the items of a
\* collection are daily ones, stamped with the start of their day
ExportAssets ==
    { a \in Assets :
        /\ a.bands = <<Band("temp")>> \/ a.kind \in {"TABLE", "MISSING"}
        /\ \A t \in a.times : t % MsPerDay = 0 }
\* one asset of each kind: an image, a collection without items, a collection
\* with an item on day 0, and an id that names nothing
SampleAssets ==
    { a \in ExportAssets :
        /\ a.kind \in {"IMAGE", "IMAGE_COLLECTION", "MISSING"}
        /\ a.times \subseteq {Min(Instants)}
        /\ a.kind = "IMAGE" => a.times = {} }

\* the requests of the model with the assets they meet: every pair of date
\* strings meets every asset; every id, band and format, over one day and over
\* a range, and every region under every project, meet one asset of each kind
Scenarios ==
    ({ [BaseRequest EXCEPT !.start_date = s, !.end_date = e]
       : s \in DateStrings, e \in DateStrings } \X ExportAssets)
    \cup (({ [BaseRequest EXCEPT !.dataset_id = d, !.variable = v,
                                !.export_format = f, !.end_date = e]
             : d \in DatasetIds, v \in {"temp", "precip"},
               f \in {"GeoTIFF", "TFRecord"}, e \in {DateStr(0), DateStr(1)} }
           \cup { [BaseRequest EXCEPT !.region = r, !.project_name = p]
                  : r \in Regions, p \in Projects \cup {NoProject} })
          \X SampleAssets)

StartDownloadTask ==
    /\ last.op = "idle"
    /\ Len(tasks) < MaxJobs
    /\ \E sc \in Scenarios :
         \E run \in StartRuns(sc[1], sc[2], session, Len(tasks) + 1) :
            /\ last' = [op |-> "start_download_task",
                        args |-> sc[1],
                        env |-> sc[2],
                        calls |-> run.calls,
                        result |-> run.result,
                        raised |-> FALSE]
            /\ session' = run.session
            /\ tasks' = IF run.job = NoJob THEN tasks ELSE <<run.job>> \o tasks
            /\ handles' = IF run.result.task_id = Absent THEN handles
                          ELSE handles \cup {run.result.task_id}
    /\ UNCHANGED inflight

GetDownloadUrl ==
    /\ last.op = "idle"
    /\ \E sc \in Scenarios :
         \E run \in UrlRuns(sc[1], sc[2], session) :
            /\ last' = [op |-> "get_download_url",
                        args |-> sc[1],
                        env |-> sc[2],
                        calls |-> run.calls,
                        result |-> run.result,
                        raised |-> FALSE]
            /\ session' = run.session
    /\ UNCHANGED <<tasks, handles, inflight>>

CheckAuthStatus ==
    /\ last.op = "idle"
    /\ \E project_id \in Projects \cup {NoProject} :
         \E run \in AuthRuns(project_id, session) :
            /\ last' = [op |-> "check_auth_status",
                        args |-> [project_name |-> project_id],
                        calls |-> run.calls,
                        result |-> run.result,
                        raised |-> FALSE]
            /\ session' = run.session
    /\ UNCHANGED <<tasks, handles, inflight>>

CheckDatasetAccess ==
    /\ last.op = "idle"
    /\ \E asset \in SampleAssets, project_name \in Projects \cup {NoProject} :
         \E run \in CheckAccessRuns(asset, project_name, session) :
            /\ last' = [op |-> "check_dataset_access",
                        args |-> [project_name |-> project_name],
                        env |-> asset,
                        calls |-> run.calls,
                        result |-> run.result,
                        raised |-> FALSE]
            /\ session' = run.session
    /\ UNCHANGED <<tasks, handles, inflight>>

DownloadEeToDrive ==
    /\ last.op = "idle"
    /\ Len(tasks) < MaxJobs
    /\ \E start_date \in DateStrings, end_date \in DateStrings,
          asset \in ExportAssets, project_name \in Projects \cup {NoProject} :
         \E run \in DriveRuns(start_date, end_date, asset, project_name, session,
                              Len(tasks) + 1) :
            /\ last' = [op |-> "download_ee_to_drive",
                        args |-> [start_date |-> start_date, end_date |-> end_date,
                                  project_name |-> project_name],
                        env |-> asset,
                        calls |-> run.calls,
                        result |-> run.result,
                        raised |-> run.raised]
            /\ session' = run.session
            /\ tasks' = run.jobs \o tasks
    /\ UNCHANGED <<handles, inflight>>

StatusView ==
    /\ last.op = "idle"
    /\ \E task_id \in {PyStr("1"), PyStr("2")}, project_id \in Projects \cup {NoProject} :
         \E run \in StatusViewRuns(tasks, task_id, project_id, session) :
            /\ last' = [op |-> "views.get_task_status",
                        args |-> [task_id |-> task_id, project_name |-> project_id],
                        calls |-> run.calls,
                        result |-> run.result,
                        raised |-> FALSE]
            /\ session' = run.session
    /\ UNCHANGED <<tasks, handles, inflight>>

\* JsonResponse(GEEService.check_auth_status(request))
AuthView ==
    /\ last.op = "idle"
    /\ \E project_id \in Projects \cup {NoProject} :
         \E run \in AuthRuns(project_id, session) :
            /\ last' = [op |-> "views.check_auth_status",
                        args |-> [project_name |-> project_id],
                        calls |-> run.calls,
                        result |-> Response(200, run.result),
                        raised |-> FALSE]
            /\ session' = run.session
    /\ UNCHANGED <<tasks, handles, inflight>>

\* the requests of the download endpoint: either band under every project and
\* without one, over a good and a bad region, for assets of every band list
DownloadView ==
    /\ last.op = "idle"
    /\ Len(tasks) < MaxJobs
    /\ \E v \in {"temp", "precip"}, p \in Projects \cup {NoProject},
          r \in {ValidRegion, RegionString(Ok(FeatureCollection(PyList(<<>>))))},
          asset \in {x \in Assets : /\ x.times \subseteq {Min(Instants)}
                                    /\ x.kind \in {"IMAGE", "IMAGE_COLLECTION"}} :
         LET req == [BaseRequest EXCEPT !.variable = v, !.project_name = p, !.region = r]
         IN  \E run \in DownloadViewRuns(req, asset, session, Len(tasks) + 1) :
                /\ last' = [op |-> "views.download_dataset",
                            args |-> req,
                            env |-> asset,
                            calls |-> run.calls,
                            result |-> run.result,
                            raised |-> FALSE]
                /\ session' = run.session
                /\ tasks' = IF run.job = NoJob THEN tasks ELSE <<run.job>> \o tasks
                /\ handles' = IF run.job = NoJob THEN handles
                              ELSE handles \cup {run.result.body.task_id}
    /\ UNCHANGED inflight

\* the endpoints, one request at a time, beside an engine that already holds
\* at most one entry
InitViews == InitStatus /\ Len(tasks) <= 1
SpecViews ==
    InitViews /\ [][StatusView \/ DownloadView \/ AuthView \/ Return]_vars

\* the handlers around the export, one request at a time
SpecOps ==
    Init /\ [][CheckAuthStatus \/ CheckDatasetAccess \/ GetDownloadUrl
               \/ DownloadEeToDrive \/ Return]_vars

Spec == Init /\ [][StartDownloadTask \/ GetTaskStatus \/ Return]_vars

\* an export request to an engine that holds no job yet
StartFirstTask == tasks = <<>> /\ StartDownloadTask

\* export requests alone
SpecStart == Init /\ [][StartFirstTask \/ Return]_vars

----------------------------------------------------------------------------
(* Requests served side by side: the session is a class attribute of the   *)
(* ee library, shared by the threads, and no handler takes a lock          *)

\* every run of the handler of request r from the state the process is in,
\* beside an engine that fails none of its calls
ThreadRuns(r) ==
    IF r.op = "start_download_task"
    THEN { [calls |-> x.calls, result |-> x.result, job |-> x.job]
           : x \in {y \in StartRuns(r.args, r.env, session, Len(tasks) + 1) :
                       Faults(y.calls) = 0} }
    ELSE { [calls |-> x.calls, result |-> x.result, job |-> NoJob]
           : x \in {y \in StatusRuns(tasks, r.args.task_id, r.args.project_name,
                                      session) : Faults(y.calls) = 0} }

\* the project request r initializes the session with
ProjectOf(r) ==
    IF r.op = "get_task_status" THEN StatusProject(r.args.project_name)
    ELSE r.args.project_name

\* a thread takes a request, an export of an image or a status poll, each
\* under a project of its own; the exports in flight and the jobs of the engine
\* stay within MaxJobs
Accept(w) ==
    /\ inflight[w] = Free
    /\ \E r \in { [op |-> "start_download_task",
                   args |-> [BaseRequest EXCEPT !.project_name = p],
                   env |-> a]
                  : p \in Projects,
                    a \in {x \in SampleAssets : x.kind = "IMAGE"} }
                \cup
                { [op |-> "get_task_status",
                   args |-> [task_id |-> PyStr("1"), project_name |-> p],
                   env |-> None]
                  : p \in Projects } :
          /\ r.op = "start_download_task" =>
                Len(tasks) + Cardinality({x \in Workers :
                                             /\ inflight[x].op = "start_download_task"
                                             /\ ~inflight[x].done}) < MaxJobs
          /\ inflight' = [inflight EXCEPT ![w] =
                [op |-> r.op, args |-> r.args, env |-> r.env, calls |-> <<>>,
                 under |-> <<>>, done |-> FALSE, result |-> None]]
    /\ UNCHANGED <<session, tasks, handles, last>>

\* a thread makes the next remote call of its handler: ee.Initialize binds the
\* session of the process, every other call runs under the session as it is;
\* the handler returns after its last call
RemoteCall(w) ==
    /\ inflight[w] # Free
    /\ ~inflight[w].done
    /\ LET r == inflight[w]
           k == Len(r.calls) + 1
       IN  \E run \in ThreadRuns(r) :
              /\ Len(run.calls) >= k
              /\ SubSeq(run.calls, 1, k - 1) = r.calls
              /\ LET c == run.calls[k]
                     bound == IF c.call = "Initialize"
                              THEN SessionAfter(session, ProjectOf(r), c.ret)
                              ELSE session
                     ends == Len(run.calls) = k
                 IN  /\ session' = bound
                     /\ inflight' = [inflight EXCEPT ![w] =
                           [r EXCEPT !.calls = Append(r.calls, c),
                                     !.under = Append(r.under, bound),
                                     !.done = ends,
                                     !.result = IF ends THEN run.result ELSE None]]
                     /\ tasks' = IF ends /\ run.job # NoJob
                                 THEN <<run.job>> \o tasks ELSE tasks
                     /\ handles' = IF ends /\ run.job # NoJob
                                   THEN handles \cup {run.result.task_id}
                                   ELSE handles
    /\ UNCHANGED last

\* the thread answers its caller and is free for the next request
Respond(w) ==
    /\ inflight[w] # Free
    /\ inflight[w].done
    /\ inflight' = [inflight EXCEPT ![w] = Free]
    /\ UNCHANGED <<session, tasks, handles, last>>

SpecThreads ==
    Init /\ [][\E w \in Workers : Accept(w) \/ RemoteCall(w) \/ Respond(w)]_vars

----------------------------------------------------------------------------
(* Claims on validate_date_range (specification SpecValidate) *)

ValidateRan == last.op = "validate_date_range"
\* the outcome of the metadata lookup and of the timestamp retrieval
InfoOutcome == last.calls[1].ret
TimestampsRetrieved ==
    /\ ValidateRan
    /\ Called(last.calls, "aggregate_array")
    /\ ~last.calls[2].ret.raised
    /\ last.calls[2].ret.val.kind = "list"
RetrievedTimestamps == last.calls[2].ret.val.items
\* 00:00 of day d, in the unit of the item timestamps
MidnightMs(d) == d * SecondsPerDay * MsPerSecond
\* the request names the days ds and de in the 'YYYY-MM-DD' form
RequestDays(ds, de) ==
    /\ DateStr(ds) = last.args.start_date
    /\ DateStr(de) = last.args.end_date
\* the overlap of [00:00 of ds, 00:00 of de] with [min(T), max(T)]
Overlaps(T, ds, de) == Min(T) <= MidnightMs(de) /\ MidnightMs(ds) <= Max(T)

\* C2: for a collection whose timestamp set T was retrieved, validate_date_range
\* returns true iff min(T) <= end and start <= max(T), start and end being the
\* instants 00:00 of the requested days (overlap, not containment); with T
\* empty it returns true.
C2_OverlapIff ==
    TimestampsRetrieved =>
        /\ RetrievedTimestamps = {} => last.result = TRUE
        /\ RetrievedTimestamps # {} =>
              \A ds \in Days, de \in Days :
                  RequestDays(ds, de) =>
                      (last.result = TRUE <=> Overlaps(RetrievedTimestamps, ds, de))

\* a request that starts before the data and ends inside it is accepted
C2_Witness ==
    /\ TimestampsRetrieved
    /\ RetrievedTimestamps # {}
    /\ \E ds \in Days, de \in Days :
          /\ RequestDays(ds, de)
          /\ MidnightMs(ds) < Min(RetrievedTimestamps)
          /\ MidnightMs(de) < Max(RetrievedTimestamps)
          /\ Min(RetrievedTimestamps) <= MidnightMs(de)
    /\ last.result = TRUE

\* C3: when the engine reports the asset as kind IMAGE, validate_date_range
\* returns true for every requested start and end and never asks for the
\* timestamps.
C3_ImageAlwaysValid ==
    (ValidateRan /\ ~InfoOutcome.raised /\ InfoOutcome.val.kind = "dict"
        /\ InfoOutcome.val.type = "IMAGE") =>
            /\ last.result = TRUE
            /\ ~Called(last.calls, "aggregate_array")

\* an IMAGE asked for a range that ends before the image's own timestamp
C3_Witness ==
    /\ ValidateRan
    /\ ~InfoOutcome.raised
    /\ InfoOutcome.val.kind = "dict"
    /\ InfoOutcome.val.type = "IMAGE"
    /\ last.env.times # {}
    /\ \E de \in Days : /\ DateStr(de) = last.args.end_date
                        /\ MidnightMs(de) < Min(last.env.times)
    /\ last.result = TRUE

\* C4: validate_date_range is fail-open: it returns true whenever the metadata
\* lookup or the timestamp retrieval raises or the timestamp list is missing
\* or empty, and it returns false only with timestamps retrieved, non-empty,
\* and the overlap test failed.
C4_FailOpen ==
    ValidateRan =>
        /\ InfoOutcome.raised => last.result = TRUE
        /\ (Called(last.calls, "aggregate_array") /\ last.calls[2].ret.raised)
              => last.result = TRUE
        /\ (Called(last.calls, "aggregate_array") /\ ~last.calls[2].ret.raised
              /\ last.calls[2].ret.val.kind = "none") => last.result = TRUE
        /\ (TimestampsRetrieved /\ RetrievedTimestamps = {}) => last.result = TRUE
        /\ last.result = FALSE =>
              /\ TimestampsRetrieved
              /\ RetrievedTimestamps # {}
              /\ \E ds \in Days, de \in Days :
                    /\ Strptime(last.args.start_date) = Ok(ds * SecondsPerDay)
                    /\ Strptime(last.args.end_date) = Ok(de * SecondsPerDay)
                    /\ ~Overlaps(RetrievedTimestamps, ds, de)

\* the timestamp retrieval raised on a collection whose data lies after the
\* requested range, and the range is accepted all the same
C4_Witness ==
    /\ ValidateRan
    /\ Called(last.calls, "aggregate_array")
    /\ last.calls[2].ret.raised
    /\ last.env.kind = "IMAGE_COLLECTION"
    /\ last.env.times # {}
    /\ \E de \in Days : /\ DateStr(de) = last.args.end_date
                        /\ MidnightMs(de) < Min(last.env.times)
    /\ last.result = TRUE

----------------------------------------------------------------------------
(* Claims on get_available_variables (specification SpecVariables) *)

VariablesRan == last.op = "get_available_variables"
\* the list holds the placeholder band and nothing else
PlaceholderOnly(variables) == Len(variables) = 1 /\ variables[1].id = "default"
\* a metadata record that names no band
NamesNoBand(info) ==
    \/ info.bands = Absent
    \/ info.bands.kind # "list"
    \/ info.bands.items = <<>>
\* the first-member lookup, when made, is the last remote call
FirstMemberOutcome == last.calls[Len(last.calls)].ret
FirstMemberNamesNoBand ==
    Called(last.calls, "first.getInfo") =>
        \/ FirstMemberOutcome.raised
        \/ FirstMemberOutcome.val.kind = "none"
        \/ NamesNoBand(FirstMemberOutcome.val)

\* C5: get_available_variables never returns an empty variables list; for a
\* resolved asset whose metadata names no band, also after the first-member
\* lookup, the list is the one placeholder band "default", and so it is on
\* every failure path (asset not resolved, metadata of an unexpected shape).
C5_NeverEmptyVariables ==
    VariablesRan =>
        /\ Len(last.result.variables) >= 1
        /\ ~last.access.success => PlaceholderOnly(last.result.variables)
        /\ (last.access.success /\ NamesNoBand(last.access.info) /\ FirstMemberNamesNoBand)
              => PlaceholderOnly(last.result.variables)
        /\ (last.access.success /\ last.access.info.properties # Absent
              /\ last.access.info.properties.kind # "dict")
              => PlaceholderOnly(last.result.variables)

\* a collection without members: the first-member lookup gives None
C5_Witness ==
    /\ VariablesRan
    /\ last.access.success
    /\ last.access.info.type = "IMAGE_COLLECTION"
    /\ Called(last.calls, "first.getInfo")
    /\ ~FirstMemberOutcome.raised
    /\ FirstMemberOutcome.val.kind = "none"
    /\ PlaceholderOnly(last.result.variables)

----------------------------------------------------------------------------
(* Claims on get_task_status (specification SpecStatus) *)

StatusRan == last.op = "get_task_status"
\* the engine answered the job-list request with a list
FetchOutcome == last.calls[2].ret
ListFetched ==
    StatusRan /\ ~FetchOutcome.raised /\ FetchOutcome.val.kind = "list"
FetchedList == FetchOutcome.val.items
\* entry i of the fetched list is a job whose id has the string form of the
\* polled id
HasPolledId(i) ==
    /\ FetchedList[i].kind = "dict"
    /\ FetchedList[i].id # Absent
    /\ ToStr(FetchedList[i].id) = ToStr(last.args.task_id)
JobListed == ListFetched /\ \E i \in 1..Len(FetchedList) : HasPolledId(i)
\* the job the poll is about: the first listed entry with the polled id
PolledJob ==
    FetchedList[CHOOSE i \in 1..Len(FetchedList) :
                    HasPolledId(i) /\ \A j \in 1..(i - 1) : ~HasPolledId(j)]

\* C6: for a job id that matches no entry of the engine's job list (the empty
\* list included), get_task_status returns exactly {status: FAILED,
\* progress: 0, error: "Task not found or may have expired"} and does not
\* raise.
C6_UnknownJobFailed ==
    (ListFetched /\ ~JobListed) =>
        /\ ~last.raised
        /\ last.result = [status |-> PyStr("FAILED"), progress |-> PyInt(0),
                          error |-> PyStr("Task not found or may have expired")]

\* a list with entries, none of them under the polled id
C6_Witness ==
    /\ ListFetched
    /\ ~JobListed
    /\ Len(FetchedList) >= 2
    /\ \E i \in 1..Len(FetchedList) :
          FetchedList[i].kind = "dict" /\ FetchedList[i].id # Absent
    /\ last.result.error = PyStr("Task not found or may have expired")

\* C7: for a found job, progress follows the state: COMPLETED gives 100,
\* FAILED and CANCELLED give 0 whatever the engine reports, any other state
\* gives the engine's progress, 0 when it is absent or null, and for a
\* fraction f in 0..1 the integer k with k <= 100 * f < k + 1.
C7_ProgressByState ==
    JobListed =>
        LET job == PolledJob
            engine == job.progress
            progress == last.result.progress
        IN  /\ job.state = PyStr("COMPLETED") => progress = PyInt(100)
            /\ job.state \in {PyStr("FAILED"), PyStr("CANCELLED")} => progress = PyInt(0)
            /\ job.state \notin {PyStr("COMPLETED"), PyStr("FAILED"), PyStr("CANCELLED")} =>
                  /\ engine \in {Absent, None} => progress = PyInt(0)
                  /\ (engine \notin {Absent, None} /\ engine.kind = "int")
                        => progress = engine
                  /\ (engine \notin {Absent, None} /\ engine.kind = "float"
                        /\ 0 <= engine.val /\ engine.val <= FracDen) =>
                        /\ progress.kind = "int"
                        /\ progress.val * FracDen <= 100 * engine.val
                        /\ 100 * engine.val < (progress.val + 1) * FracDen

\* a running job at the fraction 3/8 is reported at 37
C7_Witness ==
    /\ JobListed
    /\ PolledJob.state = PyStr("RUNNING")
    /\ PolledJob.progress = PyFloat(3)
    /\ last.result.progress = PyInt(37)

\* C10: get_task_status never raises: for every engine response it returns a
\* status record; a failure while fetching or scanning the list gives
\* {status: FAILED, progress: 0, error: a diagnostic}, and a matched job
\* without a state gives status UNKNOWN.
C10_StatusNeverRaises ==
    StatusRan =>
        /\ ~last.raised
        /\ DOMAIN last.result = {"status", "progress", "error"}
        /\ (FetchOutcome.raised \/ FetchOutcome.val.kind # "list") =>
              /\ last.result.status = PyStr("FAILED")
              /\ last.result.progress = PyInt(0)
              /\ last.result.error.kind = "str"
              /\ last.result.error.val # ""
        /\ (JobListed /\ PolledJob.state = Absent) =>
              last.result.status = PyStr("UNKNOWN")

\* the session initialization and the job-list request both fail
C10_Witness ==
    /\ StatusRan
    /\ last.calls[1].ret.raised
    /\ FetchOutcome.raised
    /\ ~last.raised
    /\ last.result.status = PyStr("FAILED")

\* the states of a JobStatus
FixedStates ==
    { PyStr("READY"), PyStr("RUNNING"), PyStr("COMPLETED"), PyStr("FAILED"),
      PyStr("CANCELLED"), PyStr("UNKNOWN") }

\* C11: every status get_task_status returns has its state in {READY, RUNNING,
\* COMPLETED, FAILED, CANCELLED, UNKNOWN}, whatever state the engine's job
\* entry carries.
C11_StateInFixedSet ==
    StatusRan => last.result.status \in FixedStates

\* C12: every status get_task_status returns has a progress that is an integer
\* in 0..100, for every progress value the engine reports for the job.
C12_ProgressInRange ==
    StatusRan =>
        /\ last.result.progress.kind = "int"
        /\ 0 <= last.result.progress.val
        /\ last.result.progress.val <= 100

----------------------------------------------------------------------------
(* Claims on start_download_task and the round trip to get_task_status     *)
(* (specification Spec)                                                    *)

StartRan == last.op = "start_download_task"
\* the submission succeeded: the result carries a task_id
Started == StartRan /\ last.result.task_id # Absent

\* the engine counted no item of the collection in the requested range
EmptySelection ==
    /\ StartRan
    /\ last.env.kind = "IMAGE_COLLECTION"
    /\ \E i \in 1..Len(last.calls) :
          last.calls[i].call = "filtered.size" /\ last.calls[i].ret = Ok(PyInt(0))

NoDataText(start_date, end_date, available_range) ==
    "No data available for the selected date range (" \o start_date \o " to "
    \o end_date \o ")." \o available_range \o " Please try a different date range."
\* the no-data messages: without, or with, the days the dataset covers
NoDataTexts(start_date, end_date) ==
    { NoDataText(start_date, end_date, "") }
    \cup { NoDataText(start_date, end_date,
               " Data is available from " \o DateStr(a) \o " to " \o DateStr(b) \o ".")
           : a \in Days, b \in Days }

\* C1: an export request on an IMAGE_COLLECTION whose date-filtered,
\* band-selected collection has size 0 returns the no-data-in-range error, and
\* neither Export.image.toDrive nor task.start is reached: no job is created.
C1_NoDataNoExport ==
    EmptySelection =>
        /\ last.result.error # Absent
        /\ last.result.error.val \in NoDataTexts(last.args.start_date, last.args.end_date)
        /\ last.result.task_id = Absent
        /\ ~Called(last.calls, "Export.image.toDrive")
        /\ ~Called(last.calls, "task.start")

\* a collection with items on day 0 and day 2, asked for day 1 to day 2: the
\* range passes the validation, the filter finds nothing
C1_Witness ==
    /\ EmptySelection
    /\ last.env.times = {0, 2 * MsPerDay}
    /\ last.args.start_date = DateStr(1)
    /\ last.args.end_date = DateStr(2)
    /\ last.result.error = PyStr(NoDataText(DateStr(1), DateStr(2),
           " Data is available from " \o DateStr(0) \o " to " \o DateStr(2) \o "."))
    /\ tasks = <<>>

\* the id the engine gave to the job of the submission
StartedId == last.calls[Len(last.calls)].ret.val
\* the engine lists a job whose id has the string form s
EngineLists(s) == \E i \in 1..Len(tasks) : ToStr(tasks[i].id) = s
PolledHandle == StatusRan /\ last.args.task_id \in handles

\* C8: the task_id a submission returns is a string, the string form of the id
\* the engine assigned whatever its type; and a poll with a returned task_id
\* whose job the engine lists finds that job: it does not report 'Task not
\* found'.
C8_JobIdRoundTrip ==
    /\ Started =>
          /\ last.result.task_id.kind = "str"
          /\ last.result.task_id.val = ToStr(StartedId)
    /\ \A h \in handles : h.kind = "str"
    /\ (PolledHandle /\ ListFetched /\ EngineLists(last.args.task_id.val)) =>
          /\ last.result.error # PyStr("Task not found or may have expired")
          /\ last.result.status = PyStr("READY")

\* a job the engine numbered (no string), polled by the returned string
C8_Witness ==
    /\ PolledHandle
    /\ ListFetched
    /\ Len(tasks) = 1
    /\ tasks[1].id = PyInt(1)
    /\ last.args.task_id = PyStr("1")
    /\ last.result.status = PyStr("READY")

\* the part of the id after its last '/', the whole id without one
IsLastSegment(id, seg) ==
    \E k \in 0..Len(id) :
        /\ k = 0 \/ id[k] = "/"
        /\ \A j \in (k + 1)..Len(id) : id[j] # "/"
        /\ seg = SubSeq(id, k + 1, Len(id))

ExpectedName(seg, band, start_date, end_date) ==
    IF start_date = end_date
    THEN JoinChars(seg) \o "_" \o band \o "_" \o start_date
    ELSE JoinChars(seg) \o "_" \o band \o "_" \o start_date \o "_to_" \o end_date

LowerCased(format) ==
    CASE format = "GeoTIFF" -> "geotiff"
      [] format = "TFRecord" -> "tfrecord"

\* C9: the output name of a submission is <last '/'-separated segment of the
\* asset id>_<band>_<start> when start equals end and
\* <segment>_<band>_<start>_to_<end> otherwise; the job is described by that
\* name, and the returned filename is the name, '.', the lower-cased format.
C9_OutputName ==
    Started =>
        \E seg \in {SubSeq(last.args.dataset_id, k, Len(last.args.dataset_id))
                    : k \in 1..(Len(last.args.dataset_id) + 1)} :
            LET name == ExpectedName(seg, last.args.variable,
                                     last.args.start_date, last.args.end_date)
            IN  /\ IsLastSegment(last.args.dataset_id, seg)
                /\ last.result.description = PyStr(name)
                /\ \E i \in 1..Len(last.calls) :
                      /\ last.calls[i].call = "Export.image.toDrive"
                      /\ last.calls[i].description = name
                /\ last.result.filename =
                      PyStr(name \o "." \o LowerCased(last.args.export_format))

\* the example of the specification, over a range
C9_Witness ==
    /\ Started
    /\ last.args.dataset_id = <<"A", "/", "B", "/", "C">>
    /\ last.env.kind = "IMAGE_COLLECTION"
    /\ last.result.description = PyStr("C_temp_2020-01-01_to_2020-01-02")
    /\ last.result.filename = PyStr("C_temp_2020-01-01_to_2020-01-02.tfrecord")

----------------------------------------------------------------------------
(* Claims on the steps of start_download_task (specification Spec) *)

\* the request names a project: the session step runs, Initialize first
WithProject == StartRan /\ last.args.project_name # NoProject
InitOutcome == last.calls[1].ret
\* the verification round trip was made
Verified == WithProject /\ ~InitOutcome.raised
VerifyOutcome == last.calls[2].ret

\* ensuring the session failed: Initialize raised, or the verification raised
\* or gave a wrong value
SessionFailed ==
    /\ WithProject
    /\ \/ InitOutcome.raised
       \/ VerifyOutcome.raised
       \/ VerifyOutcome.val # PyInt(3)

\* the failure says the caller may not use the project, or that there is no
\* such project
RightsMessages == {CallerLacksPermission, ProjectNotFound}
SessionRefused ==
    /\ WithProject
    /\ \/ InitOutcome.raised /\ InitOutcome.msg \in RightsMessages
       \/ ~InitOutcome.raised /\ VerifyOutcome.raised /\ VerifyOutcome.msg \in RightsMessages
       \/ ~InitOutcome.raised /\ ~VerifyOutcome.raised /\ VerifyOutcome.val # PyInt(3)

\* the two session errors of start_download_task, for project p
SessionErrors(p) ==
    { PyStr("Permission error: Caller does not have required permission to use project "
            \o p \o ". Please check your project ID."),
      PyStr("Failed to initialize Earth Engine with project ID: " \o p
            \o ". Test operation failed.") }

\* the call returned a session error and made no call after the session step
StoppedAtSession ==
    /\ last.result.error \in SessionErrors(last.args.project_name)
    /\ last.result.task_id = Absent
    /\ Len(last.calls) = (IF InitOutcome.raised THEN 1 ELSE 2)

BadRegion(region) ==
    IF region.parsed.raised THEN TRUE
    ELSE IF region.parsed.val.kind # "dict" THEN TRUE
    ELSE IF region.parsed.val.features = Absent THEN TRUE
    ELSE IF region.parsed.val.features.kind # "list" THEN TRUE
    ELSE IF region.parsed.val.features.items = <<>> THEN TRUE
    ELSE IF region.parsed.val.features.items[1].kind # "dict" THEN TRUE
    ELSE region.parsed.val.features.items[1].geometry = Absent

RegionErrors ==
    { PyStr("Invalid region format: " \o detail) :
        detail \in { "Expecting value", "missing features or invalid structure",
                     "'geometry'", "string indices must be integers",
                     "'NoneType' object is not subscriptable" } }

\* the remote calls of the session step
SessionCallCount ==
    IF ~WithProject THEN 0 ELSE IF InitOutcome.raised THEN 1 ELSE 2

\* C14: for a region that is not parseable, is no mapping, has no features
\* array or an empty one, or whose first feature lacks a geometry field, a
\* call that gets past the session step returns an invalid-region error and
\* issues no asset resolution, date validation or export submission.
C14_BadRegionStops ==
    (StartRan /\ BadRegion(last.args.region) /\ ~SessionRefused) =>
        /\ last.result.error \in RegionErrors
        /\ last.result.task_id = Absent
        /\ Len(last.calls) = SessionCallCount

\* the session is set up for the project, the first feature has no geometry
C14_Witness ==
    /\ WithProject
    /\ Len(last.calls) = 2
    /\ VerifyOutcome = Ok(PyInt(3))
    /\ last.args.region = RegionString(Ok(FeatureCollection(PyList(<<Feature(Absent)>>))))
    /\ last.result.error = PyStr("Invalid region format: 'geometry'")
    /\ session = last.args.project_name

\* call i is the timestamp retrieval of the date validation: the one made
\* before the build step
ValidationRetrieval(i) ==
    /\ last.calls[i].call = "aggregate_array"
    /\ \A j \in 1..(i - 1) : last.calls[j].call # "filtered.size"
    /\ ~last.calls[i].ret.raised
    /\ last.calls[i].ret.val.kind = "list"

\* the validation of the request returned false: it retrieved the timestamps
\* T, and the requested days do not overlap [min(T), max(T)]
RejectedOver(T) ==
    /\ T # {}
    /\ \E ds \in Days, de \in Days : RequestDays(ds, de) /\ ~Overlaps(T, ds, de)

\* messages that tell the range is unavailable and name the coverage a .. b
CoverageTexts(a, b) ==
    { "Selected date range is not available for this dataset" \o stop
      \o " Data is available from " \o a \o " to " \o b \o "." \o advice
      : stop \in {"", "."}, advice \in {"", " Please try a different date range."} }
    \cup { NoDataText(last.args.start_date, last.args.end_date,
                      " Data is available from " \o a \o " to " \o b \o ".") }

\* C15: when the date validation returns false, start_download_task returns a
\* date-range-unavailable error whose message includes the asset's coverage
\* (first and last day of the data) whenever it is known, and submits no
\* export job.
C15_RejectionNamesCoverage ==
    StartRan =>
        \A i \in 1..Len(last.calls) :
            (ValidationRetrieval(i) /\ RejectedOver(last.calls[i].ret.val.items)) =>
                LET T == last.calls[i].ret.val.items
                IN  /\ last.result.error # Absent
                    /\ last.result.error.val \in
                          CoverageTexts(DateStr(Min(T) \div MsPerDay),
                                        DateStr(Max(T) \div MsPerDay))
                    /\ last.result.task_id = Absent
                    /\ ~Called(last.calls, "task.start")

\* C16: every request that reaches the export submission has its start date
\* not after its end date: no job is submitted for a request whose start date
\* is later than its end date.
C16_StartNotAfterEnd ==
    Started =>
        \A ds \in Days, de \in Days : RequestDays(ds, de) => ds <= de

----------------------------------------------------------------------------
(* Claims on get_download_url (specification SpecOps) *)

UrlRan == last.op = "get_download_url"
UrlGiven == UrlRan /\ last.result.success = PyTrue

\* the name start_download_task gives the output of the request
SubmissionName(args) ==
    LET base == CHOOSE seg \in {SubSeq(args.dataset_id, k, Len(args.dataset_id))
                                : k \in 1..(Len(args.dataset_id) + 1)} :
                    IsLastSegment(args.dataset_id, seg)
    IN  ExpectedName(base, args.variable, args.start_date, args.end_date)

\* C17: get_download_url names its output as start_download_task does for the
\* same inputs (<last segment>_<band>_<start>, or <last segment>_<band>_
\* <start>_to_<end> over a range): the name of the URL request is that name and
\* the filename is that name, '.', the lower-cased format; the result carries
\* a url and a filename and no job id.
C17_UrlNamedAsSubmission ==
    UrlGiven =>
        /\ last.calls[Len(last.calls)].call = "getDownloadURL"
        /\ last.calls[Len(last.calls)].name = SubmissionName(last.args)
        /\ last.result.filename =
              PyStr(SubmissionName(last.args) \o "."
                    \o LowerCased(last.args.export_format))
        /\ last.result.url # Absent
        /\ "task_id" \notin DOMAIN last.result

----------------------------------------------------------------------------
(* Claims on requests served side by side (specification SpecThreads) *)

\* the thread serves a request whose own ee.Initialize succeeded
InitializedOwn(w) ==
    /\ inflight[w] # Free
    /\ Len(inflight[w].calls) >= 1
    /\ inflight[w].calls[1].call = "Initialize"
    /\ ~inflight[w].calls[1].ret.raised

\* C18: session initialization is serialized across requests served side by
\* side: every remote call (verification, asset probe, export submission,
\* job-list fetch) of a request that initialized the session with its project
\* ran while the session of the process was bound to that project.
C18_CallsUnderOwnProject ==
    \A w \in Workers :
        InitializedOwn(w) =>
            \A i \in 1..Len(inflight[w].calls) :
                inflight[w].under[i] = ProjectOf(inflight[w])

----------------------------------------------------------------------------
(* Claims on session failures and on exceptions (specification SpecOps) *)

\* an operation that ensures the session for a project has run, and its
\* ee.Initialize raised
SessionOps ==
    {"check_auth_status", "start_download_task", "check_dataset_access",
     "get_download_url"}
InitializeRaised ==
    /\ last.op \in SessionOps
    /\ last.args.project_name # NoProject
    /\ last.calls[1].ret.raised

\* the text of the error the operation returned, Absent when it returned none
ReportedText ==
    CASE last.op \in {"check_auth_status", "check_dataset_access"} ->
            IF "message" \in DOMAIN last.result THEN last.result.message ELSE Absent
      [] OTHER -> last.result.error

\* the permission-denied errors that name project p
DeniedTexts(p) ==
    { PyStr(ProjectPermissionError(p)), ProjectIdError(p).message }
RegistrationText ==
    PyStr("Please complete your registration at https://signup.earthengine.google.com/")
AuthorizationText ==
    PyStr("Please authenticate at https://code.earthengine.google.com first.")
OtherKinds == UNION {DeniedTexts(p) : p \in Projects} \cup {RegistrationText, AuthorizationText}

\* C19: when ensuring the session for project P fails because the caller
\* lacks rights to P, the operation returns a permission-denied error whose
\* message contains P; a not-registered and a not-authorized failure are
\* reported as their own kinds, and every other failure as an error of none of
\* these kinds.
C19_SessionFailureKinds ==
    InitializeRaised =>
        LET msg == last.calls[1].ret.msg
        IN  CASE msg = CallerLacksPermission ->
                    ReportedText \in DeniedTexts(last.args.project_name)
              [] msg = NotRegistered -> ReportedText = RegistrationText
              [] msg = NotAuthorized -> ReportedText = AuthorizationText
              [] OTHER -> ReportedText # Absent /\ ReportedText \notin OtherKinds

\* C20: no core operation lets an exception escape to its caller: every
\* failure of the session initialization or of a remote call comes back as a
\* value.
C20_NothingRaised ==
    last.op # "idle" => ~last.raised

----------------------------------------------------------------------------
(* Claims on the endpoints (specification SpecViews) *)

\* the endpoint answered with a failure outcome: a job not found or a status
\* lookup error, a failed authentication check, an error payload of the
\* download endpoint (the redirect of a session without credentials apart)
FailureDelivered ==
    \/ /\ last.op = "views.get_task_status"
       /\ last.result.code # 302
       /\ last.result.body.status = PyStr("FAILED")
       /\ last.result.body.error # None
    \/ /\ last.op = "views.check_auth_status"
       /\ ~last.result.body.authenticated
    \/ /\ last.op = "views.download_dataset"
       /\ last.result.body.error # Absent

\* C21: every failure of an endpoint (task status, download, auth check) is
\* delivered with an HTTP 4xx or 5xx status, never with a 2xx status.
C21_FailuresCarryErrorStatus ==
    FailureDelivered => last.result.code >= 400

----------------------------------------------------------------------------
(* Claim on the order of the steps of start_download_task (specification SpecStart) *)

\* the step the i-th remote call belongs to: 1 session, 3 asset resolution,
\* 4 date validation, 5 image build, 7 submission (region parsing and naming
\* call nothing)
StepOfCall(i) ==
    LET c == last.calls[i]
    IN  IF i <= SessionCallCount THEN 1
        ELSE IF c.call \in {"Export.image.toDrive", "task.start"} THEN 7
        ELSE IF \E j \in 1..i : last.calls[j].call = "filtered.size" THEN 5
        ELSE IF c.call = "aggregate_array" THEN 4
        ELSE IF c.call = "getInfo"
        THEN IF /\ last.calls[i - 1].call = "ImageCollection.size"
                /\ last.calls[i - 1].ret.raised
             THEN 3 ELSE 4
        ELSE 3

\* the texts of the exceptions the calls raised
RaisedTexts ==
    { JoinWords(last.calls[i].ret.msg)
      : i \in {j \in 1..Len(last.calls) : last.calls[j].ret.raised} }

\* the errors each step returns
StepErrors(step) ==
    CASE step = 1 -> SessionErrors(last.args.project_name)
      [] step = 2 -> RegionErrors \cup {PyStr("Invalid region format: Invalid GeoJSON geometry")}
      [] step = 3 ->
            { PyStr("Dataset not found or not accessible"),
              PyStr("Permission error: Caller does not have required permission to use project "
                    \o last.args.project_name
                    \o ". Please check that you are using the correct project ID.") }
            \cup { PyStr(prefix \o t)
                   : prefix \in { "Error accessing dataset: ",
                                  "Permission error: Caller does not have required permission to use this dataset. Error: " },
                     t \in RaisedTexts }
      [] step = 4 -> {PyStr("Selected date range is not available for this dataset")}
      [] step = 5 ->
            { PyStr("Failed to process dataset: " \o t) : t \in RaisedTexts }
            \cup { PyStr(t) : t \in NoDataTexts(last.args.start_date, last.args.end_date) }
      [] step = 7 -> { PyStr("Failed to start export task: " \o t) : t \in RaisedTexts }
      [] OTHER -> {}

\* the step the call stopped in, by its remote calls (region parsing, which
\* calls nothing, stops right after the session step)
StepReached(step) ==
    IF step = 2 THEN Len(last.calls) = SessionCallCount
    ELSE Len(last.calls) > 0 /\ StepOfCall(Len(last.calls)) = step

\* the calls come in the order of the steps
StepsAscend ==
    \A i \in 1..(Len(last.calls) - 1) : StepOfCall(i) <= StepOfCall(i + 1)

\* an error is the error of exactly one step, the one the call stopped in
ErrorNamesStep ==
    last.result.error # Absent =>
        LET steps == {step \in 1..7 : last.result.error \in StepErrors(step)}
        IN  /\ last.result.task_id = Absent
            /\ Cardinality(steps) = 1
            /\ \A step \in steps : StepReached(step)

\* a failed remote call of the asset lookup, the image build or the submission
\* ends the call with an error
RemoteFailureStops ==
    \A i \in 1..Len(last.calls) :
        (/\ last.calls[i].ret.raised
         /\ \/ last.calls[i].call \in {"filtered.size", "task.start"}
            \/ last.calls[i].call = "getInfo" /\ StepOfCall(i) = 3)
        => last.result.error # Absent /\ i = Len(last.calls)

\* the job is created and started at most once, as the last thing of the call
SubmittedAtMostOnce ==
    /\ \A i \in 1..Len(last.calls) :
          /\ last.calls[i].call = "Export.image.toDrive" => i = Len(last.calls) - 1
          /\ last.calls[i].call = "task.start" =>
                i = Len(last.calls) /\ last.calls[i - 1].call = "Export.image.toDrive"
    /\ Started => /\ last.calls[Len(last.calls)].call = "task.start"
                  /\ ~last.calls[Len(last.calls)].ret.raised
                  /\ last.result.error = Absent

\* no step issues again a call that failed
NoRetry ==
    \A i \in 1..(Len(last.calls) - 1) :
        (last.calls[i].ret.raised /\ StepOfCall(i) = StepOfCall(i + 1))
        => last.calls[i + 1].call # last.calls[i].call

----------------------------------------------------------------------------
(* Claims on the resolution of an asset (specification SpecOps) *)

AccessRan == last.op = "check_dataset_access"

\* the calls of the probe chain: those after Initialize, when a project is given
ProbeCalls ==
    IF last.args.project_name = NoProject THEN last.calls
    ELSE SubSeq(last.calls, 2, Len(last.calls))

ProbeOrder == <<"Image.bandNames", "ImageCollection.size", "getInfo">>

\* the error for a project the caller may not use, returned before any probe
RefusedProject == AccessRan /\ last.result.error = PyStr("Project ID error")

\* C23: check_dataset_access probes image, collection, generic lookup in that
\* order; the first probe that succeeds decides the kind, the collection probe
\* runs only after a failed image probe and the generic lookup only after both
\* failed; the failure of the two probes is never what is reported, and an
\* asset error is returned only when the generic lookup raises or yields
\* nothing.
C23_FirstProbeDecides ==
    (AccessRan /\ ~RefusedProject) =>
        /\ Len(ProbeCalls) \in 1..3
        /\ \A i \in 1..Len(ProbeCalls) :
              /\ ProbeCalls[i].call = ProbeOrder[i]
              /\ i < Len(ProbeCalls) => ProbeCalls[i].ret.raised
        /\ (Len(ProbeCalls) = 1 /\ ~ProbeCalls[1].ret.raised) =>
              last.result = AccessOk(Info("IMAGE", Absent, Absent, Absent, Absent))
        /\ (Len(ProbeCalls) = 2 /\ ~ProbeCalls[2].ret.raised) =>
              last.result = AccessOk(Info("IMAGE_COLLECTION", Absent, Absent, Absent, Absent))
        /\ Len(ProbeCalls) < 3 => ~ProbeCalls[Len(ProbeCalls)].ret.raised
        /\ ~last.result.success =>
              /\ Len(ProbeCalls) = 3
              /\ ProbeCalls[3].ret.raised \/ ProbeCalls[3].ret.val = None
              /\ ProbeCalls[3].ret.raised =>
                    \E prefix \in { "", "Error accessing dataset: ",
                                    "Permission error: Caller does not have required permission to use this dataset. Error: " } :
                       last.result.message = PyStr(prefix \o JoinWords(ProbeCalls[3].ret.msg))
              /\ ~ProbeCalls[3].ret.raised =>
                    /\ last.result.error = PyStr("Dataset not found or not accessible")
                    /\ last.result.message = Absent
        /\ (Len(ProbeCalls) = 3 /\ ~ProbeCalls[3].ret.raised /\ ProbeCalls[3].ret.val # None) =>
              last.result = AccessOk(ProbeCalls[3].ret.val)

\* a collection: the image probe is refused, the collection probe answers and
\* the lookup is not consulted
C23_Witness ==
    /\ AccessRan
    /\ last.env.kind = "IMAGE_COLLECTION"
    /\ Len(ProbeCalls) = 2
    /\ ProbeCalls[1].ret = Raise("EEException", NotAnImage)
    /\ ~ProbeCalls[2].ret.raised
    /\ last.result.success
    /\ last.result.info.type = "IMAGE_COLLECTION"


----------------------------------------------------------------------------
(* Claim on the bands of a resolved asset (specification SpecVariables) *)

\* the image probe of the access check, when it answered with a band list
ImageProbeBands ==
    { last.calls[i].ret.val.items
      : i \in {j \in 1..Len(last.calls) :
                  /\ last.calls[j].call = "Image.bandNames"
                  /\ ~last.calls[j].ret.raised
                  /\ last.calls[j].ret.val.kind = "list"} }

\* C24: when the image probe succeeds for an asset whose band list B is
\* retrievable and non-empty, the asset is classified IMAGE and the variables
\* of get_available_variables are exactly the bands B, not the placeholder;
\* for a collection without declared bands the variables are the bands of its
\* first member.
C24_ImageBandsReturned ==
    VariablesRan =>
        /\ \A B \in ImageProbeBands :
              B # <<>> =>
                  /\ last.access.success
                  /\ last.access.info.type = "IMAGE"
                  /\ last.result.variables = B
        /\ (/\ last.access.success
            /\ last.access.info.type = "IMAGE_COLLECTION"
            /\ NamesNoBand(last.access.info)
            /\ ~FirstMemberNamesNoBand)
           => last.result.variables = FirstMemberOutcome.val.bands.items

----------------------------------------------------------------------------
(* Claim on the export image of start_download_task (specification SpecStart) *)

\* a call of the asset resolution that answered
Resolution(name) ==
    { last.calls[i].ret
      : i \in {j \in 1..Len(last.calls) :
                  /\ last.calls[j].call = name
                  /\ StepOfCall(j) = 3
                  /\ ~last.calls[j].ret.raised} }

\* the kind the asset was resolved with: by the first probe that answered, or
\* the kind the generic lookup names
ResolvedKind ==
    IF Resolution("Image.bandNames") # {} THEN "IMAGE"
    ELSE IF Resolution("ImageCollection.size") # {} THEN "IMAGE_COLLECTION"
    ELSE IF \E r \in Resolution("getInfo") : r.val # None
    THEN (CHOOSE r \in Resolution("getInfo") : TRUE).val.type
    ELSE "none"

\* the size queries and the exports among the calls
SizeCalls == {i \in 1..Len(last.calls) : last.calls[i].call = "filtered.size"}
ExportCalls == {i \in 1..Len(last.calls) : last.calls[i].call = "Export.image.toDrive"}

\* C25: the export image is built by kind. For IMAGE_COLLECTION the collection
\* is filtered by the requested start and end and the band selected, the size
\* is asked for, and only for a size other than zero is the mean taken and
\* exported; for IMAGE and every other kind the band of the image is selected
\* with no size query and no reduction; mean is the only reducer.
C25_ImageBuiltByKind ==
    StartRan =>
        /\ \A i \in SizeCalls :
              /\ ResolvedKind = "IMAGE_COLLECTION"
              /\ last.calls[i].ret
                    \in FilteredSizeOutcomes(last.env, last.args.start_date, last.args.end_date)
        /\ \A i \in ExportCalls :
              /\ last.calls[i].image.band = last.args.variable
              /\ IF ResolvedKind = "IMAGE_COLLECTION"
                 THEN /\ last.calls[i].image.source = "ImageCollection"
                      /\ last.calls[i].image.reducer = "mean"
                      /\ \E j \in SizeCalls :
                            /\ j < i
                            /\ ~last.calls[j].ret.raised
                            /\ last.calls[j].ret.val # PyInt(0)
                 ELSE /\ last.calls[i].image.source = "Image"
                      /\ last.calls[i].image.reducer = "none"
                      /\ SizeCalls = {}
        /\ (ResolvedKind = "IMAGE_COLLECTION" /\ last.result.error = Absent) => ExportCalls # {}

\* a collection the probe did not answer for and the lookup resolved: its
\* items of the range are averaged
C25_Witness ==
    /\ StartRan
    /\ Resolution("ImageCollection.size") = {}
    /\ ResolvedKind = "IMAGE_COLLECTION"
    /\ \E i \in SizeCalls : last.calls[i].ret = Ok(PyInt(1))
    /\ \E i \in ExportCalls : last.calls[i].image.reducer = "mean"
    /\ Started

----------------------------------------------------------------------------
(* Claim on the task-status endpoint (specification SpecViews) *)

\* the endpoint got the engine's job list at every request for it (the first
\* comes after the two initializations)
ViewFetchedList ==
    /\ last.op = "views.get_task_status"
    /\ last.result.code = 200
    /\ \A i \in 1..Len(last.calls) :
          last.calls[i].call = "getTaskList" => last.calls[i].ret = Ok(PyList(tasks))

\* C26: for every job list and job id the task-status endpoint returns the
\* status, progress and error that GEEService.get_task_status returns for
\* that list and id (COMPLETED with progress 100, a fraction rescaled to
\* 0..100).
C26_ViewAgreesWithService ==
    ViewFetchedList =>
        last.result.body
            = StatusOrFailure(ScanResult(last.calls[3].ret, last.args.task_id)).result

----------------------------------------------------------------------------
(* Claim on the variable check of the download endpoint (specification SpecViews) *)

\* the endpoint refused the request for its variable
VariableRejected ==
    /\ last.op = "views.download_dataset"
    /\ last.result.body.error = PyStr("Selected variable is not available for this dataset")

\* C27: the download endpoint does not reject, for its variable, a request
\* whose variable is a band of the asset (IMAGE or IMAGE_COLLECTION) as the
\* engine reports it and whose other fields are valid; here for runs in which
\* no remote call met a connection failure.
C27_BandOfAssetAccepted ==
    (/\ last.op = "views.download_dataset"
     /\ Faults(last.calls) = 0
     /\ last.args.region = ValidRegion
     /\ \E i \in 1..Len(last.env.bands) : last.env.bands[i].id = last.args.variable)
    => ~VariableRejected

----------------------------------------------------------------------------
(* Claim on the coverage get_dataset_temporal_info reports (specification SpecValidate) *)

\* get_dataset_temporal_info ran on a collection with items and got their
\* timestamps
CoverageFound ==
    /\ last.op = "get_dataset_temporal_info"
    /\ last.env.kind = "IMAGE_COLLECTION"
    /\ last.env.times # {}
    /\ last.calls[Len(last.calls)] = Call("aggregate_array", Ok(PyList(last.env.times)))

\* what get_dataset_temporal_info reports for a collection once it has the
\* timestamps T
CoverageOf(T) == TemporalResult(Raise("EEException", NotAnImage), Ok(PyList(T)))

\* validate_date_range ran with the timestamps of a collection with items, on
\* the reported coverage or on its first or last day alone
CoverageValidated ==
    /\ ValidateRan
    /\ last.env.kind = "IMAGE_COLLECTION"
    /\ last.env.times # {}
    /\ TimestampsRetrieved
    /\ <<PyStr(last.args.start_date), PyStr(last.args.end_date)>>
          \in { <<CoverageOf(last.env.times).start_date, CoverageOf(last.env.times).end_date>>,
                <<CoverageOf(last.env.times).start_date, CoverageOf(last.env.times).start_date>>,
                <<CoverageOf(last.env.times).end_date, CoverageOf(last.env.times).end_date>> }

\* C28: for a collection with items, get_dataset_temporal_info reports a first
\* and a last day, the first not after the last, and validate_date_range
\* returns true for that range and for its first and its last day alone,
\* whatever the time of day of the items.
C28_ReportedCoverageValid ==
    /\ CoverageFound =>
          /\ last.result.start_date # None
          /\ last.result.end_date # None
          /\ last.result = CoverageOf(last.env.times)
          /\ Strptime(last.result.start_date.val).val <= Strptime(last.result.end_date.val).val
    /\ CoverageValidated => last.result = TRUE

----------------------------------------------------------------------------
(* Claim on the session around get_task_status (specification SpecStatus) *)

\* a step that polls a job without naming a project, in a session bound to
\* a caller's project
PollWithoutProject ==
    /\ last.op = "idle"
    /\ session \in Projects
    /\ last'.op = "get_task_status"
    /\ last'.args.project_name = NoProject

\* C29: get_task_status called without a project identity leaves the
\* process-wide session bound to the project it was bound to, and a failed
\* initialization inside get_task_status never prevents the request for the
\* job list.
C29_PollKeepsSession ==
    /\ [][PollWithoutProject => session' = session]_vars
    /\ [](StatusRan =>
            /\ Len(last.calls) = 2
            /\ last.calls[1].call = "Initialize"
            /\ last.calls[2].call = "getTaskList")

----------------------------------------------------------------------------
(* Claim on download_ee_to_drive (specification SpecOps) *)

DriveRan == last.op = "download_ee_to_drive"

\* the ids of the jobs the call started, in the order it started them
StartedIds ==
    LET started == SelectSeq(last.calls,
                       LAMBDA c : c.call = "task.start" /\ ~c.ret.raised)
    IN  [i \in 1..Len(started) |-> started[i].ret.val]

\* the lookups of the loop over the days: those after Initialize, when a
\* project is given, and the two lookups of the collection's first and last
\* date
DayLookups ==
    SelectSeq(SubSeq(last.calls,
                     (IF last.args.project_name = NoProject THEN 3 ELSE 4),
                     Len(last.calls)),
              LAMBDA c : c.call = "first.getInfo")

\* the call got past its own checks: the project is not refused and both
\* dates are readable
DriveAdmitted ==
    /\ DriveRan
    /\ ~(last.args.project_name # NoProject
         /\ last.calls[1].ret.raised
         /\ IsProjectPermissionError(last.calls[1].ret.msg))
    /\ ~Strptime(last.args.start_date).raised
    /\ ~Strptime(last.args.end_date).raised

\* the number of the first day of the range, and the days in it
FirstDay == Strptime(last.args.start_date).val \div SecondsPerDay
DaysInRange ==
    IF Strptime(last.args.end_date).val < Strptime(last.args.start_date).val THEN 0
    ELSE (Strptime(last.args.end_date).val - Strptime(last.args.start_date).val)
            \div SecondsPerDay + 1

\* C30: download_ee_to_drive looks at each day of the inclusive range once, in
\* ascending order, whatever fails on the way, and starts at most one job for
\* a day; it returns the ids of the jobs it started, in that order and not
\* empty, and raises ValueError exactly when it started none (as for a start
\* after the end).
C30_EveryDayVisited ==
    DriveRan =>
        /\ last.raised <=> StartedIds = <<>>
        /\ last.raised => last.result.type = "ValueError"
        /\ ~last.raised => last.result = PyList(StartedIds)
        /\ Len(StartedIds) <= DaysInRange
        /\ DriveAdmitted =>
              /\ Len(DayLookups) = DaysInRange
              /\ \A k \in 1..Len(DayLookups) :
                    \/ DayLookups[k].ret.raised
                    \/ DayLookups[k].ret.val # None <=>
                          \E t \in last.env.times :
                              /\ (FirstDay + k - 1) * MsPerDay <= t
                              /\ t < (FirstDay + k) * MsPerDay

====
